---- MODULE Spec2Model ----
(***************************************************************************)
(* cctop: session discovery, fusion, state inference and the TUI refresh   *)
(* loop, modelled from internal/session (discovery.go, metadata.go,        *)
(* types.go) and internal/tui (tui.go).                                    *)
(*                                                                         *)
(* The specifications of this module share its variables:                  *)
(*   SpecDetect  DetectState applied to bounded (file, mtime, now) inputs  *)
(*   SpecFuse    the fusion part of DiscoverAll applied to bounded inputs  *)
(*   Spec        the live TUI: ticks, background passes, cache, clock      *)
(*   FairSpec    Spec with the fairness of timers and goroutines           *)
(*   SpecEnrich  one enrichment pass over bounded project directories      *)
(*   SpecReadLastLine, SpecParseEtime, SpecEncodePath, SpecParsePS,        *)
(*   SpecCleanTopic  one function applied to bounded inputs                *)
(*   SpecTUI     model.Update under key presses, resizes, ticks, refreshes *)
(*   SpecEnrichOrder  EnrichSessions over the orders of one session list   *)
(*   SpecFuseCLI  the fusion over ps lists of terminal processes           *)
(*   SpecFindSession  the choice between index entry and directory scan    *)
(*   SpecRefreshOrder  the refresh goroutines and the order of their       *)
(*               messages                                                  *)
(* Times are in seconds.  Paths and cache keys are sequences of one-       *)
(* character strings.                                                      *)
(***************************************************************************)
EXTENDS Integers, Sequences, FiniteSets, TLC

VARIABLES
    dsFile,     \* SpecDetect: the transcript file handed to DetectState
    dsMtime,    \* SpecDetect: the mtime argument
    dsNow,      \* SpecDetect: the now argument
    dsState,    \* SpecDetect: the value returned ("none" before the call)
    fuEntries,  \* SpecFuse: ParsePS's result, in ps order
    fuCwdMap,   \* SpecFuse: BatchResolveCWDs' result
    fuLocks,    \* SpecFuse: the lock files of ~/.claude/ide, in glob order
    fuAlive,    \* SpecFuse: the pids for which signal 0 succeeds
    fuResult,   \* SpecFuse: the fused session list
    fuDone,     \* SpecFuse: the discovery has run
    clock,      \* Spec: the wall clock, as an index into the time points
    files,      \* Spec: the transcript files of the project directory
    index,      \* Spec: the sessions-index.json of the project directory
    metadataCache, \* Spec: the process-wide cache, a function of its keys
    passes,     \* Spec: the DiscoverAll goroutines, by slot
    timers,     \* Spec: the tea.Tick timers that have not fired
    sessions,   \* Spec: model.sessions, the list the TUI holds
    firstRefresh, \* Spec: model.firstRefresh
    quit,       \* Spec: tea.Quit was returned
    crashed,    \* Spec: the runtime aborted the process
    appends,    \* Spec: lines appended so far (bounded by MaxAppends)
    indexWrites, \* Spec: index rewrites so far (bounded by MaxIndexWrites)
    rlFile,     \* SpecReadLastLine: the file: can it be opened, its bytes
    rlOffset,   \* SpecReadLastLine: offset, the start of the part read so far
    rlBuf,      \* SpecReadLastLine: buf, the bytes read so far
    rlResult,   \* SpecReadLastLine: the value returned
    rlPc,       \* SpecReadLastLine: "open", "loop" or "done"
    callArg,    \* the specifications of one function: its argument
    callRet,    \* the specifications of one function: the value returned
    callDone,   \* the specifications of one function: the call has returned
    mode,       \* SpecTUI: model.mode
    cursor,     \* SpecTUI: model.cursor
    stateFilter, \* SpecTUI: model.stateFilter
    sortField,  \* SpecTUI: model.sortField
    filterText, \* SpecTUI: model.filterText
    filterInput, \* SpecTUI: the value of model.filterInput
    windowWidth, \* SpecTUI: model.windowWidth
    windowHeight, \* SpecTUI: model.windowHeight
    refreshing  \* SpecTUI: the refreshSessionsCmd goroutines that are running

dsVars == <<dsFile, dsMtime, dsNow, dsState>>

fuVars == <<fuEntries, fuCwdMap, fuLocks, fuAlive, fuResult, fuDone>>

envVars == <<clock, files, index, appends, indexWrites>>

tuiVars == <<passes, timers, sessions, firstRefresh, quit, crashed>>

mainVars == <<envVars, metadataCache, tuiVars>>

rlVars == <<rlFile, rlOffset, rlBuf, rlResult, rlPc>>

callVars == <<callArg, callRet, callDone>>

uiVars == <<mode, cursor, stateFilter, sortField, filterText, filterInput,
            windowWidth, windowHeight, refreshing>>

vars == <<dsVars, fuVars, mainVars, rlVars, callVars, uiVars>>

\* the values the variables of the other specifications keep
IdleRl ==
    rlFile = <<>> /\ rlOffset = 0 /\ rlBuf = <<>> /\ rlResult = <<>> /\ rlPc = "done"

IdleCall == callArg = <<>> /\ callRet = <<>> /\ callDone = FALSE

IdleUi ==
    /\ mode = "normal" /\ cursor = 0 /\ stateFilter = 0 /\ sortField = 0
    /\ filterText = <<>> /\ filterInput = <<>>
    /\ windowWidth = 0 /\ windowHeight = 0 /\ refreshing = 0

----------------------------------------------------------------------------
(* Bounds *)

\* longest content-block array of a transcript line in SpecDetect
MaxBlocks == 2

\* most claude processes ps lists in SpecFuse
MaxEntries == 2

\* most lock files in ~/.claude/ide in SpecFuse
MaxLocks == 2

\* last index of the clock's time points in Spec
MaxTick == 1

\* most transcript lines appended in one run of Spec
MaxAppends == 1

\* most rewrites of sessions-index.json in one run of Spec
MaxIndexWrites == 1

\* most bytes of a file in SpecReadLastLine
MaxFileLen == 5

\* most characters of a path in SpecEncodePath
MaxPathLen == 4

\* most lines of a ps output in SpecParsePS
MaxPsLines == 3

\* the bytes ReadLastLine reads at a time (4096 in the source, scaled down)
readSizeMax == 2

----------------------------------------------------------------------------
(* internal/session/types.go, metadata.go: constants *)

StateActive == "active"
StateWaiting == "waiting"
StateIdle == "idle"
StateInput == "input"

activeRecentThreshold == 30
activeUserPromptThreshold == 300

----------------------------------------------------------------------------
(* Transcript lines.                                                       *)
(* A physical line is blank, text that is not JSON, a JSON value that is   *)
(* not an object, or a JSON object with the fields of jsonlLine (strings   *)
(* stand for the field texts).  For an object, typed = FALSE says          *)
(* that one of the fields jsonlLine declares (type, message.role, slug,    *)
(* ...) holds a JSON value of another type, which json.Unmarshal reports   *)
(* as an error.  content is message.content kept raw (json.RawMessage).    *)
(***************************************************************************)

NoContent == [kind |-> "absent", blocks |-> <<>>]

BlankLine == [shape |-> "blank", typed |-> TRUE, type |-> "", role |-> "",
              content |-> NoContent, slug |-> "", sessionId |-> "", gitBranch |-> ""]

TextLine == [shape |-> "text", typed |-> TRUE, type |-> "", role |-> "",
             content |-> NoContent, slug |-> "", sessionId |-> "", gitBranch |-> ""]

NonObjectLine == [shape |-> "nonobject", typed |-> TRUE, type |-> "", role |-> "",
                  content |-> NoContent, slug |-> "", sessionId |-> "", gitBranch |-> ""]

ObjLine(t, r, c) == [shape |-> "object", typed |-> TRUE, type |-> t, role |-> r,
                     content |-> c, slug |-> "", sessionId |-> "", gitBranch |-> ""]

\* an object line with its slug, sessionId and gitBranch fields
FullLine(t, r, c, slug, sessionId, gitBranch) ==
    [shape |-> "object", typed |-> TRUE, type |-> t, role |-> r, content |-> c,
     slug |-> slug, sessionId |-> sessionId, gitBranch |-> gitBranch]

StringContent == [kind |-> "string", blocks |-> <<>>]

BlockContent(bs) == [kind |-> "blocks", blocks |-> bs]

\* a file that os.Open cannot open: it does not exist or cannot be read
NoFile == [open |-> FALSE, lines |-> <<>>]

----------------------------------------------------------------------------
(* metadata.go: ReadLastLine, at the level of lines.  strings.TrimRight    *)
(* drops every trailing newline, so trailing blank lines are dropped and   *)
(* the text after the last remaining newline is returned; "" (BlankLine)   *)
(* for a file that cannot be opened or holds nothing but newlines.         *)
(***************************************************************************)

RECURSIVE TrimBlankTail(_)
TrimBlankTail(lines) ==
    IF lines = <<>> THEN <<>>
    ELSE IF lines[Len(lines)] = BlankLine
         THEN TrimBlankTail(SubSeq(lines, 1, Len(lines) - 1))
         ELSE lines

ReadLastLine(file) ==
    IF ~file.open THEN BlankLine
    ELSE LET kept == TrimBlankTail(file.lines)
         IN  IF kept = <<>> THEN BlankLine ELSE kept[Len(kept)]

(* json.Unmarshal([]byte(line), &jsonlLine): err is set for text that is   *)
(* not JSON, for a JSON value that is not an object and for a field of the *)
(* wrong JSON type.                                                        *)
UnmarshalLine(line) ==
    [err |-> (line.shape # "object") \/ ~line.typed,
     Type |-> line.type, Role |-> line.role, Content |-> line.content,
     Slug |-> line.slug, GitBranch |-> line.gitBranch, SessionID |-> line.sessionId]

(* metadata.go: hasToolUse.  An absent content is the empty RawMessage;    *)
(* a string, a number or an array holding a non-object fail to unmarshal   *)
(* into the block slice; null unmarshals into the empty slice.             *)
hasToolUse(raw, toolName) ==
    IF raw.kind = "absent" THEN FALSE
    ELSE IF raw.kind # "blocks" THEN FALSE
    ELSE \E i \in 1..Len(raw.blocks) :
            raw.blocks[i].type = "tool_use" /\ raw.blocks[i].name = toolName

\* a mutant of DetectState: rule 1 compares with <= and rule 4 with <=
DetectState_inclusive(file, mtime, now) ==
    LET age == now - mtime
        lastLine == ReadLastLine(file)
        entry == UnmarshalLine(lastLine)
    IN  IF age <= activeRecentThreshold THEN StateActive
        ELSE IF lastLine = BlankLine THEN StateIdle
        ELSE IF entry.err THEN StateIdle
        ELSE IF entry.Type = "progress" THEN StateActive
        ELSE IF entry.Role = "assistant"
             THEN IF hasToolUse(entry.Content, "AskUserQuestion")
                  THEN StateInput ELSE StateWaiting
        ELSE IF entry.Role = "user" /\ age <= activeUserPromptThreshold
             THEN StateActive
        ELSE StateIdle

\* a mutant of DetectState: an empty last line returns the wrong constant
DetectState_emptyActive(file, mtime, now) ==
    LET age == now - mtime
        lastLine == ReadLastLine(file)
        entry == UnmarshalLine(lastLine)
    IN  IF age < activeRecentThreshold THEN StateActive
        ELSE IF lastLine = BlankLine THEN StateActive
        ELSE IF entry.err THEN StateIdle
        ELSE IF entry.Type = "progress" THEN StateActive
        ELSE IF entry.Role = "assistant"
             THEN IF hasToolUse(entry.Content, "AskUserQuestion")
                  THEN StateInput ELSE StateWaiting
        ELSE IF entry.Role = "user" /\ age < activeUserPromptThreshold
             THEN StateActive
        ELSE StateIdle

\* a mutant of DetectState: a progress line gets a state of its own
DetectState_progressState(file, mtime, now) ==
    LET age == now - mtime
        lastLine == ReadLastLine(file)
        entry == UnmarshalLine(lastLine)
    IN  IF age < activeRecentThreshold THEN StateActive
        ELSE IF lastLine = BlankLine THEN StateIdle
        ELSE IF entry.err THEN StateIdle
        ELSE IF entry.Type = "progress" THEN "progress"
        ELSE IF entry.Role = "assistant"
             THEN IF hasToolUse(entry.Content, "AskUserQuestion")
                  THEN StateInput ELSE StateWaiting
        ELSE IF entry.Role = "user" /\ age < activeUserPromptThreshold
             THEN StateActive
        ELSE StateIdle

(* metadata.go: DetectState *)
DetectState(file, mtime, now) ==
    LET age == now - mtime
        lastLine == ReadLastLine(file)
        entry == UnmarshalLine(lastLine)
    IN  IF age < activeRecentThreshold THEN StateActive
        ELSE IF lastLine = BlankLine THEN StateIdle
        ELSE IF entry.err THEN StateIdle
        ELSE IF entry.Type = "progress" THEN StateActive
        ELSE IF entry.Role = "assistant"
             THEN IF hasToolUse(entry.Content, "AskUserQuestion")
                  THEN StateInput ELSE StateWaiting
        ELSE IF entry.Role = "user" /\ age < activeUserPromptThreshold
             THEN StateActive
        ELSE StateIdle

----------------------------------------------------------------------------
(* discovery.go: the fusion of IDE and CLI candidates.                     *)
(* A psEntry is [PID, TTY, Command]; Command is the list of its words and  *)
(* a word is a list of path components.  cwdMap maps a pid to [ok, path],  *)
(* ok = FALSE for a pid the map does not hold.  A lock file is [readable,  *)
(* PID, WorkspaceFolders, IDEName]; readable = FALSE when os.ReadFile or   *)
(* json.Unmarshal fails.  A Session is [PID, CWD, Source].                 *)
(***************************************************************************)

HasPrefix(str, prefix) ==
    /\ Len(prefix) <= Len(str)
    /\ SubSeq(str, 1, Len(prefix)) = prefix

\* filepath.Base of a word given as its path components
Base(word) == IF word = <<>> THEN "." ELSE word[Len(word)]

(* discovery.go: shortenIDEName.  strings.Contains is tabulated for the    *)
(* IDE names the model uses.                                               *)
shortenIDEName(fullName) ==
    IF fullName \in {"Visual Studio Code", "Visual Studio Code - Insiders"} THEN "VSCode"
    ELSE IF fullName \in {"Cursor"} THEN "Cursor"
    ELSE IF fullName = "" THEN "IDE"
    ELSE fullName

(* discovery.go: isProcessAlive *)
isProcessAlive(pid, alive) == pid \in alive

\* the first TTY=?? entry at or after index i whose CWD has the prefix; 0 if none
RECURSIVE FirstIDEMatch(_, _, _, _)
FirstIDEMatch(entries, cwdMap, workspace, i) ==
    IF i > Len(entries) THEN 0
    ELSE IF /\ entries[i].TTY = "??"
            /\ cwdMap[entries[i].PID].ok
            /\ HasPrefix(cwdMap[entries[i].PID].path, workspace)
         THEN i
         ELSE FirstIDEMatch(entries, cwdMap, workspace, i + 1)

\* a mutant of IDESessionsOfLock: the liveness probe is left out
IDESessionsOfLock_noProbe(lockFile, entries, cwdMap, alive) ==
    IF ~lockFile.readable THEN <<>>
    ELSE IF lockFile.PID = 0 \/ Len(lockFile.WorkspaceFolders) = 0 THEN <<>>
    ELSE LET workspace == lockFile.WorkspaceFolders[1]
             m == FirstIDEMatch(entries, cwdMap, workspace, 1)
         IN  IF m = 0 THEN <<>>
             ELSE << [PID |-> entries[m].PID, CWD |-> workspace,
                      Source |-> shortenIDEName(lockFile.IDEName)] >>

\* the sessions one lock file adds (none or one)
IDESessionsOfLock(lockFile, entries, cwdMap, alive) ==
    IF ~lockFile.readable THEN <<>>
    ELSE IF lockFile.PID = 0 \/ Len(lockFile.WorkspaceFolders) = 0 THEN <<>>
    ELSE IF ~isProcessAlive(lockFile.PID, alive) THEN <<>>
    ELSE LET workspace == lockFile.WorkspaceFolders[1]
             m == FirstIDEMatch(entries, cwdMap, workspace, 1)
         IN  IF m = 0 THEN <<>>
             ELSE << [PID |-> entries[m].PID, CWD |-> workspace,
                      Source |-> shortenIDEName(lockFile.IDEName)] >>

(* discovery.go: discoverIDESessions *)
RECURSIVE discoverIDESessions(_, _, _, _)
discoverIDESessions(lockFiles, entries, cwdMap, alive) ==
    IF lockFiles = <<>> THEN <<>>
    ELSE IDESessionsOfLock(Head(lockFiles), entries, cwdMap, alive)
         \o discoverIDESessions(Tail(lockFiles), entries, cwdMap, alive)

\* a mutant of CLIFrom: an accepted directory does not enter the seen-set
RECURSIVE CLIFrom_noAdd(_, _, _, _)
CLIFrom_noAdd(entries, cwdMap, seenCWDs, i) ==
    IF i > Len(entries) THEN <<>>
    ELSE LET entry == entries[i]
             c == cwdMap[entry.PID]
         IN  IF entry.TTY = "??" THEN CLIFrom_noAdd(entries, cwdMap, seenCWDs, i + 1)
             ELSE IF Len(entry.Command) = 0 THEN CLIFrom_noAdd(entries, cwdMap, seenCWDs, i + 1)
             ELSE IF Base(entry.Command[1]) # "claude"
                  THEN CLIFrom_noAdd(entries, cwdMap, seenCWDs, i + 1)
             ELSE IF ~c.ok \/ c.path = <<>> THEN CLIFrom_noAdd(entries, cwdMap, seenCWDs, i + 1)
             ELSE IF c.path \in seenCWDs THEN CLIFrom_noAdd(entries, cwdMap, seenCWDs, i + 1)
             ELSE << [PID |-> entry.PID, CWD |-> c.path, Source |-> "CLI"] >>
                  \o CLIFrom_noAdd(entries, cwdMap, seenCWDs, i + 1)

(* discovery.go: discoverCLISessions, from entry i on with the seen-set    *)
RECURSIVE CLIFrom(_, _, _, _)
CLIFrom(entries, cwdMap, seenCWDs, i) ==
    IF i > Len(entries) THEN <<>>
    ELSE LET entry == entries[i]
             c == cwdMap[entry.PID]
         IN  IF entry.TTY = "??" THEN CLIFrom(entries, cwdMap, seenCWDs, i + 1)
             ELSE IF Len(entry.Command) = 0 THEN CLIFrom(entries, cwdMap, seenCWDs, i + 1)
             ELSE IF Base(entry.Command[1]) # "claude"
                  THEN CLIFrom(entries, cwdMap, seenCWDs, i + 1)
             ELSE IF ~c.ok \/ c.path = <<>> THEN CLIFrom(entries, cwdMap, seenCWDs, i + 1)
             ELSE IF c.path \in seenCWDs THEN CLIFrom(entries, cwdMap, seenCWDs, i + 1)
             ELSE << [PID |-> entry.PID, CWD |-> c.path, Source |-> "CLI"] >>
                  \o CLIFrom(entries, cwdMap, seenCWDs \cup {c.path}, i + 1)

discoverCLISessions(entries, cwdMap, seenCWDs) == CLIFrom(entries, cwdMap, seenCWDs, 1)

\* a mutant of FuseSessions: the CLI sessions are discovered first, with an
\* empty seen-set
FuseSessions_cliFirst(entries, cwdMap, lockFiles, alive) ==
    IF Len(entries) = 0 THEN <<>>
    ELSE LET cliSessions == discoverCLISessions(entries, cwdMap, {})
             ideSessions == discoverIDESessions(lockFiles, entries, cwdMap, alive)
         IN  cliSessions \o ideSessions

(* discovery.go: DiscoverAll up to the call of EnrichSessions *)
FuseSessions(entries, cwdMap, lockFiles, alive) ==
    IF Len(entries) = 0 THEN <<>>
    ELSE LET ideSessions == discoverIDESessions(lockFiles, entries, cwdMap, alive)
             seenCWDs == { ideSessions[i].CWD : i \in 1..Len(ideSessions) }
             cliSessions == discoverCLISessions(entries, cwdMap, seenCWDs)
         IN  ideSessions \o cliSessions

----------------------------------------------------------------------------
(* SpecFuse: the fusion on bounded inputs *)

PathA == <<"/", "a">>
PathAB == <<"/", "a", "b">>
PathC == <<"/", "c">>

FuseLockPids == {7, 8}

FuseCommands ==
    { << <<"usr", "bin", "claude">> >>,
      << <<"node">>, <<"lib", "claude">> >> }

FuseCwdVals ==
    { [ok |-> FALSE, path |-> <<>>] }
    \cup { [ok |-> TRUE, path |-> p] : p \in {<<>>, PathA, PathAB, PathC} }

\* a claude process of the process table: its ps columns and its directory
FuseProcVals == [TTY : {"??", "ttys001"}, Command : FuseCommands, cwd : FuseCwdVals]

\* ps lists a pid once, in increasing pid order: the i-th process has pid i
FuseProcSeqs == UNION { [1..n -> FuseProcVals] : n \in 0..MaxEntries }

FuseEntriesOf(procs) ==
    [i \in 1..Len(procs) |->
        [PID |-> i, TTY |-> procs[i].TTY, Command |-> procs[i].Command]]

FuseCwdMapOf(procs) == [i \in 1..Len(procs) |-> procs[i].cwd]

FuseLockVals ==
    { [readable |-> FALSE, PID |-> 0, WorkspaceFolders |-> <<>>, IDEName |-> ""],
      [readable |-> TRUE, PID |-> 0, WorkspaceFolders |-> <<PathA>>, IDEName |-> "Cursor"],
      [readable |-> TRUE, PID |-> 7, WorkspaceFolders |-> <<>>, IDEName |-> "Cursor"] }
    \cup { [readable |-> TRUE, PID |-> 7, WorkspaceFolders |-> w, IDEName |-> ""] :
              w \in {<<PathA>>, <<PathC, PathA>>} }
    \cup { [readable |-> TRUE, PID |-> 8, WorkspaceFolders |-> w,
            IDEName |-> "Visual Studio Code - Insiders"] :
              w \in {<<PathA>>, <<PathC, PathA>>, <<PathAB>>} }

\* one lock file per IDE process: two readable lock files never name the same pid
FuseLockSeqs ==
    UNION { { l \in [1..n -> FuseLockVals] :
                \A i, j \in 1..n :
                    (i # j /\ l[i].readable /\ l[j].readable /\ l[i].PID # 0)
                        => l[i].PID # l[j].PID } : n \in 0..MaxLocks }

InitFuse ==
    /\ \E procs \in FuseProcSeqs :
          /\ fuEntries = FuseEntriesOf(procs)
          /\ fuCwdMap = FuseCwdMapOf(procs)
    /\ fuLocks \in FuseLockSeqs
    /\ fuAlive \in SUBSET FuseLockPids
    /\ fuResult = <<>>
    /\ fuDone = FALSE
    /\ dsFile = NoFile /\ dsMtime = 0 /\ dsNow = 0 /\ dsState = "none"
    /\ clock = 0 /\ files = <<>> /\ index = <<>> /\ metadataCache = <<>>
    /\ passes = <<>> /\ timers = 0 /\ sessions = <<>> /\ firstRefresh = FALSE
    /\ quit = FALSE /\ crashed = FALSE /\ appends = 0 /\ indexWrites = 0
    /\ IdleRl /\ IdleCall /\ IdleUi

RunDiscover ==
    /\ ~fuDone
    /\ fuResult' = FuseSessions(fuEntries, fuCwdMap, fuLocks, fuAlive)
    /\ fuDone' = TRUE
    /\ UNCHANGED <<fuEntries, fuCwdMap, fuLocks, fuAlive>>

NextFuse == RunDiscover /\ UNCHANGED <<dsVars, uiVars, mainVars, rlVars, callVars>>

SpecFuse == InitFuse /\ [][NextFuse]_vars

----------------------------------------------------------------------------
(* SpecFuse: the claims about the fused list *)

\* lock file k is readable, names a pid and a workspace, and its pid is alive
fuLockLive(k) ==
    /\ fuLocks[k].readable
    /\ fuLocks[k].PID # 0
    /\ fuLocks[k].PID \in fuAlive
    /\ fuLocks[k].WorkspaceFolders # <<>>

\* some live lock file has d as its first workspace folder and a process
\* without a terminal runs below d: an IDE session for d exists
fuIDESessionFor(d) ==
    \E k \in 1..Len(fuLocks) :
        /\ fuLockLive(k)
        /\ fuLocks[k].WorkspaceFolders[1] = d
        /\ \E i \in 1..Len(fuEntries) :
              /\ fuEntries[i].TTY = "??"
              /\ fuCwdMap[fuEntries[i].PID].ok
              /\ HasPrefix(fuCwdMap[fuEntries[i].PID].path, d)

\* a terminal-attached claude process has d as its working directory
fuTerminalProcessIn(d) ==
    \E i \in 1..Len(fuEntries) :
        /\ fuEntries[i].TTY # "??"
        /\ fuEntries[i].Command[1][Len(fuEntries[i].Command[1])] = "claude"
        /\ fuCwdMap[fuEntries[i].PID].ok
        /\ fuCwdMap[fuEntries[i].PID].path = d

fuIndexesOf(d) == { i \in 1..Len(fuResult) : fuResult[i].CWD = d }

(* C2 as claimed: when an IDE session and a terminal-attached claude       *)
(* process have the same working directory, the fused list holds exactly   *)
(* one session for that directory, and its source is the IDE.              *)
C2_OneIDESessionPerSharedDir ==
    fuDone =>
      \A d \in {PathA, PathAB, PathC} :
        (fuIDESessionFor(d) /\ fuTerminalProcessIn(d)) =>
            /\ Cardinality(fuIndexesOf(d)) = 1
            /\ \A i \in fuIndexesOf(d) : fuResult[i].Source # "CLI"

(* C3 as claimed: no two sessions of the fused list have the same working  *)
(* directory.                                                              *)
C3_UniqueWorkingDirectory ==
    fuDone =>
      \A i, j \in 1..Len(fuResult) :
        i # j => fuResult[i].CWD # fuResult[j].CWD

(* C4: every IDE-sourced session of the fused list has a lock file, read   *)
(* in this pass, whose pid is non-zero and passed the liveness probe and   *)
(* whose workspace-folder list is not empty (its first folder is the       *)
(* session's working directory): a stale lock file contributes nothing.    *)
C4_NoPhantomFromStaleLock ==
    fuDone =>
      \A i \in 1..Len(fuResult) :
        fuResult[i].Source # "CLI" =>
            \E k \in 1..Len(fuLocks) :
                /\ fuLockLive(k)
                /\ fuLocks[k].WorkspaceFolders[1] = fuResult[i].CWD

\* C4 witness: a pass saw a stale lock file (dead pid) beside a live one and
\* returned an IDE session
C4_Witness ==
    /\ fuDone
    /\ \E i \in 1..Len(fuResult) : fuResult[i].Source # "CLI"
    /\ \E k \in 1..Len(fuLocks) :
          /\ fuLocks[k].readable
          /\ fuLocks[k].PID # 0
          /\ fuLocks[k].PID \notin fuAlive
          /\ fuLocks[k].WorkspaceFolders # <<>>

----------------------------------------------------------------------------
(* SpecDetect: DetectState on bounded inputs *)

DetectBlocks ==
    { [type |-> "text", name |-> ""],
      [type |-> "tool_use", name |-> "AskUserQuestion"],
      [type |-> "tool_use", name |-> "Read"],
      [type |-> "text", name |-> "AskUserQuestion"] }

DetectBlockSeqs == UNION { [1..n -> DetectBlocks] : n \in 0..MaxBlocks }

DetectContents ==
    { [kind |-> k, blocks |-> <<>>] : k \in {"absent", "null", "string", "number", "mixed"} }
    \cup { BlockContent(bs) : bs \in DetectBlockSeqs }

DetectLines ==
    { BlankLine, TextLine, NonObjectLine }
    \cup [shape : {"object"}, typed : BOOLEAN,
          type : {"", "progress", "assistant", "user"},
          role : {"", "assistant", "user"},
          content : DetectContents,
          slug : {""}, sessionId : {""}, gitBranch : {""}]

\* a user line that precedes the last line of a two-line transcript
DetectFirstLine == ObjLine("user", "user", StringContent)

DetectFiles ==
    { [open |-> o, lines |-> <<l>>] : o \in BOOLEAN, l \in DetectLines }
    \cup { [open |-> TRUE, lines |-> <<DetectFirstLine, l>>] : l \in DetectLines }
    \cup { [open |-> TRUE, lines |-> <<l, BlankLine>>] : l \in DetectLines }
    \cup { NoFile, [open |-> TRUE, lines |-> <<>>] }

DetectMtimes == {0, 1000}

\* now - mtime: around both thresholds, and a transcript newer than now
DetectAges == {-5, 0, 1, 29, 30, 31, 299, 300, 301, 900}

InitDetect ==
    /\ dsFile \in DetectFiles
    /\ dsMtime \in DetectMtimes
    /\ dsNow \in { dsMtime + a : a \in DetectAges }
    /\ dsState = "none"
    /\ fuEntries = <<>> /\ fuCwdMap = <<>> /\ fuLocks = <<>>
    /\ fuAlive = {} /\ fuResult = <<>> /\ fuDone = FALSE
    /\ clock = 0 /\ files = <<>> /\ index = <<>> /\ metadataCache = <<>>
    /\ passes = <<>> /\ timers = 0 /\ sessions = <<>> /\ firstRefresh = FALSE
    /\ quit = FALSE /\ crashed = FALSE /\ appends = 0 /\ indexWrites = 0
    /\ IdleRl /\ IdleCall /\ IdleUi

CallDetectState ==
    /\ dsState = "none"
    /\ dsState' = DetectState(dsFile, dsMtime, dsNow)
    /\ UNCHANGED <<dsFile, dsMtime, dsNow>>

NextDetect == CallDetectState /\ UNCHANGED <<fuVars, uiVars, mainVars, rlVars, callVars>>

SpecDetect == InitDetect /\ [][NextDetect]_vars

----------------------------------------------------------------------------
(* SpecDetect: the claims about DetectState *)

dsDone == dsState # "none"

dsAge == dsNow - dsMtime

\* the file can be opened and l is its last line that is not blank
dsIsLastLine(l) ==
    /\ dsFile.open
    /\ \E i \in 1..Len(dsFile.lines) :
          /\ dsFile.lines[i] = l
          /\ l # BlankLine
          /\ \A j \in (i + 1)..Len(dsFile.lines) : dsFile.lines[j] = BlankLine

\* nothing can be read: no file, or a file holding no line that is not blank
dsNoLastLine ==
    \/ ~dsFile.open
    \/ \A i \in 1..Len(dsFile.lines) : dsFile.lines[i] = BlankLine

dsParsable(l) == l.shape = "object" /\ l.typed

dsAsksUser(l) ==
    /\ l.content.kind = "blocks"
    /\ \E i \in 1..Len(l.content.blocks) :
          l.content.blocks[i] = [type |-> "tool_use", name |-> "AskUserQuestion"]

C6_UnreadableAlwaysIdle ==
    (dsDone /\ ~dsFile.open) => dsState = StateIdle

(* C6 amended: for a transcript that does not exist or cannot be read,     *)
(* DetectState returns Idle when now - mtime >= 30s and Active when        *)
(* now - mtime < 30s (rule 1 is decided before the file is opened).        *)
C6_UnreadableIdleUnlessRecent ==
    (dsDone /\ ~dsFile.open) =>
        dsState = (IF dsAge >= 30 THEN StateIdle ELSE StateActive)

\* C6 witness: a missing file with an old mtime has been classified Idle
C6_Witness ==
    /\ dsDone
    /\ dsFile = NoFile
    /\ dsAge >= 30
    /\ dsState = StateIdle

----------------------------------------------------------------------------
(* metadata.go: transcript matching, the metadata cache and enrichSession. *)
(* A transcript file is [exists, mtime, first, lines]: first is the text   *)
(* extractFirstPrompt finds in it, lines its physical lines.  The index    *)
(* file is [readable, entries].  Texts (prompts, slugs, ids) are strings.  *)
(***************************************************************************)

(* strings.ReplaceAll(str, old, new) for old and new of one character *)
ReplaceAll(str, old, new) ==
    [i \in 1..Len(str) |-> IF str[i] = old THEN new ELSE str[i]]

\* a mutant of EncodePath: the dots are kept
EncodePath_slashOnly(path) ==
    ReplaceAll(path, "/", "-")

(* discovery.go: EncodePath *)
EncodePath(path) ==
    LET result == ReplaceAll(path, "/", "-")
    IN  ReplaceAll(result, ".", "-")

DigitChar(d) == <<"0", "1", "2", "3", "4", "5", "6", "7", "8", "9">>[d + 1]

RECURSIVE Digits(_)
Digits(n) ==
    IF n < 10 THEN <<DigitChar(n)>> ELSE Digits(n \div 10) \o <<DigitChar(n % 10)>>

\* mtime.Format(time.RFC3339Nano): a text that differs for different instants
FormatTime(t) == Digits(t)

(* metadata.go: cacheKey := cwd + ":" + mtime.Format(time.RFC3339Nano) *)
CacheKey(cwd, mtime) == cwd \o <<":">> \o FormatTime(mtime)

(* metadata.go: CleanTopic, tabulated for the prompts the model uses *)
CleanTopic(prompt) ==
    IF prompt = "" THEN ""
    ELSE IF prompt = "# fix bug" THEN "fix bug"
    ELSE IF prompt = "<ide_opened_file>x</ide_opened_file>" THEN "(IDE context)"
    ELSE prompt

\* lastEntry.SessionID[:8] when len(SessionID) >= 8, tabulated; "" otherwise
SessionIDPrefix(id) ==
    IF id = "0a1b2c3d-9999" THEN "0a1b2c3d" ELSE ""

NotFound ==
    [found |-> FALSE, fullPath |-> "", firstPrompt |-> "", messageCount |-> 0,
     gitBranch |-> ""]

NoIndex == [readable |-> FALSE, entries |-> <<>>]

maxPromptLength == 200

\* prompt[:maxPromptLength] when the prompt is longer
TruncatePrompt(prompt) ==
    IF Len(prompt) > maxPromptLength THEN SubSeq(prompt, 1, maxPromptLength) ELSE prompt

(* metadata.go: findSessionFromIndex.  sort.Slice is not stable: any entry *)
(* of greatest fileMtime may come first, so the result is a set.           *)
findSessionFromIndex(idx) ==
    IF ~idx.readable \/ Len(idx.entries) = 0 THEN {NotFound}
    ELSE LET newest == { i \in 1..Len(idx.entries) :
                            \A j \in 1..Len(idx.entries) :
                                idx.entries[j].FileMtime <= idx.entries[i].FileMtime }
         IN  { IF idx.entries[i].FullPath = "" THEN NotFound
               ELSE [found |-> TRUE, fullPath |-> idx.entries[i].FullPath,
                     firstPrompt |-> TruncatePrompt(idx.entries[i].FirstPrompt),
                     messageCount |-> idx.entries[i].MessageCount,
                     gitBranch |-> idx.entries[i].GitBranch] : i \in newest }

\* the file os.Open and os.Stat see under a name
FileAt(fs, name) ==
    IF name \in DOMAIN fs /\ fs[name].exists
    THEN [open |-> TRUE, lines |-> fs[name].lines]
    ELSE NoFile

\* the first file of greatest mtime among names[i..], given the best so far
RECURSIVE NewestFrom(_, _, _, _)
NewestFrom(fs, names, i, best) ==
    IF i > Len(names) THEN best
    ELSE IF ~fs[names[i]].exists THEN NewestFrom(fs, names, i + 1, best)
    ELSE IF best = "" \/ fs[names[i]].mtime > fs[best].mtime
         THEN NewestFrom(fs, names, i + 1, names[i])
         ELSE NewestFrom(fs, names, i + 1, best)

(* metadata.go: findSessionFallback over the *.jsonl names in glob order *)
findSessionFallback(fs, names) ==
    LET newestPath == NewestFrom(fs, names, 1, "")
    IN  IF newestPath = "" THEN NotFound
        ELSE LET prompt == fs[newestPath].first
                 lastLine == ReadLastLine(FileAt(fs, newestPath))
                 lastEntry == UnmarshalLine(lastLine)
                 parsed == lastLine # BlankLine /\ ~lastEntry.err
             IN  [found |-> TRUE, fullPath |-> newestPath,
                  firstPrompt |-> IF parsed /\ prompt = "" /\ lastEntry.Slug # ""
                                  THEN lastEntry.Slug ELSE prompt,
                  messageCount |-> Len(fs[newestPath].lines),
                  gitBranch |-> IF parsed THEN lastEntry.GitBranch ELSE ""]

\* a mutant of findSession: the index is not consulted
findSession_scanOnly(fs, names, idx) ==
    { [m |-> findSessionFallback(fs, names), fallback |-> TRUE] }

(* metadata.go: enrichSession, the lookup: the index first, the directory  *)
(* scan when the index gives nothing; fallback tells which one answered    *)
findSession(fs, names, idx) ==
    { IF m.found THEN [m |-> m, fallback |-> FALSE]
      ELSE [m |-> findSessionFallback(fs, names), fallback |-> TRUE] :
      m \in findSessionFromIndex(idx) }

\* the topic of a cache miss: CleanTopic, then the slug, then the session id
MissTopic(fs, fullPath, firstPrompt) ==
    LET topic == CleanTopic(firstPrompt)
        lastLine == ReadLastLine(FileAt(fs, fullPath))
        lastEntry == UnmarshalLine(lastLine)
    IN  IF topic # "" THEN topic
        ELSE IF lastLine = BlankLine \/ lastEntry.err THEN ""
        ELSE IF lastEntry.Slug # "" THEN lastEntry.Slug
        ELSE SessionIDPrefix(lastEntry.SessionID)

(* metadata.go: cachedMetadata *)
CachedMetadata(fullPath, topic, messages, branch) ==
    [FullPath |-> fullPath, Topic |-> topic, Messages |-> messages, Branch |-> branch]

NoWrite == [has |-> FALSE, key |-> <<>>, val |-> CachedMetadata("", "", 0, "")]

\* a mutant of EnrichMatched: a cache hit returns Waiting for every age
EnrichMatched_cachedState(session, cwd, now, fs, cache, m) ==
    IF ~FileAt(fs, m.fullPath).open
    THEN [session |-> [session EXCEPT !.State = StateIdle], write |-> NoWrite,
          hit |-> FALSE]
    ELSE LET mtime == fs[m.fullPath].mtime
             cacheKey == CacheKey(cwd, mtime)
         IN  IF cacheKey \in DOMAIN cache
             THEN [session |-> [session EXCEPT
                                  !.Topic = cache[cacheKey].Topic,
                                  !.Messages = cache[cacheKey].Messages,
                                  !.Branch = cache[cacheKey].Branch,
                                  !.State = StateWaiting],
                   write |-> NoWrite, hit |-> TRUE]
             ELSE LET topic == MissTopic(fs, m.fullPath, m.firstPrompt)
                  IN  [session |-> [session EXCEPT
                                      !.Topic = topic,
                                      !.Messages = m.messageCount,
                                      !.Branch = m.gitBranch,
                                      !.State = DetectState(FileAt(fs, m.fullPath), mtime, now)],
                       write |-> [has |-> TRUE, key |-> cacheKey,
                                  val |-> CachedMetadata(m.fullPath, topic,
                                                         m.messageCount, m.gitBranch)],
                       hit |-> FALSE]

\* a mutant of EnrichMatched: a cache hit leaves session.Branch unset
EnrichMatched_hitNoBranch(session, cwd, now, fs, cache, m) ==
    IF ~FileAt(fs, m.fullPath).open
    THEN [session |-> [session EXCEPT !.State = StateIdle], write |-> NoWrite,
          hit |-> FALSE]
    ELSE LET mtime == fs[m.fullPath].mtime
             cacheKey == CacheKey(cwd, mtime)
         IN  IF cacheKey \in DOMAIN cache
             THEN [session |-> [session EXCEPT
                                  !.Topic = cache[cacheKey].Topic,
                                  !.Messages = cache[cacheKey].Messages,
                                  !.State = DetectState(FileAt(fs, cache[cacheKey].FullPath),
                                                        mtime, now)],
                   write |-> NoWrite, hit |-> TRUE]
             ELSE LET topic == MissTopic(fs, m.fullPath, m.firstPrompt)
                  IN  [session |-> [session EXCEPT
                                      !.Topic = topic,
                                      !.Messages = m.messageCount,
                                      !.Branch = m.gitBranch,
                                      !.State = DetectState(FileAt(fs, m.fullPath), mtime, now)],
                       write |-> [has |-> TRUE, key |-> cacheKey,
                                  val |-> CachedMetadata(m.fullPath, topic,
                                                         m.messageCount, m.gitBranch)],
                       hit |-> FALSE]

(* metadata.go: enrichSession from the os.Stat of the matched transcript   *)
(* on.  The result is the session, for a miss the entry the last statement *)
(* of enrichSession stores, and whether the cache-hit branch returned.     *)
EnrichMatched(session, cwd, now, fs, cache, m) ==
    IF ~FileAt(fs, m.fullPath).open
    THEN [session |-> [session EXCEPT !.State = StateIdle], write |-> NoWrite,
          hit |-> FALSE]
    ELSE LET mtime == fs[m.fullPath].mtime
             cacheKey == CacheKey(cwd, mtime)
         IN  IF cacheKey \in DOMAIN cache
             THEN [session |-> [session EXCEPT
                                  !.Topic = cache[cacheKey].Topic,
                                  !.Messages = cache[cacheKey].Messages,
                                  !.Branch = cache[cacheKey].Branch,
                                  !.State = DetectState(FileAt(fs, cache[cacheKey].FullPath),
                                                        mtime, now)],
                   write |-> NoWrite, hit |-> TRUE]
             ELSE LET topic == MissTopic(fs, m.fullPath, m.firstPrompt)
                  IN  [session |-> [session EXCEPT
                                      !.Topic = topic,
                                      !.Messages = m.messageCount,
                                      !.Branch = m.gitBranch,
                                      !.State = DetectState(FileAt(fs, m.fullPath), mtime, now)],
                       write |-> [has |-> TRUE, key |-> cacheKey,
                                  val |-> CachedMetadata(m.fullPath, topic,
                                                         m.messageCount, m.gitBranch)],
                       hit |-> FALSE]

\* the project directory that holds transcripts in Spec
MainProjectDir == EncodePath(PathA)

FileNames == <<"t1.jsonl">>

\* a mutant of enrichSession: session.State = StateIdle is missing, so an
\* unmatched session keeps the zero value of State
enrichSession_noIdle(session, cwd, now, fs, idx, cache) ==
    LET inDir == EncodePath(cwd) = MainProjectDir
        fromIndex == IF inDir THEN findSessionFromIndex(idx) ELSE {NotFound}
        matches == { IF m.found THEN m
                     ELSE IF inDir THEN findSessionFallback(fs, FileNames)
                     ELSE NotFound : m \in fromIndex }
    IN  { IF ~m.found
          THEN [session |-> session, write |-> NoWrite, hit |-> FALSE]
          ELSE EnrichMatched(session, cwd, now, fs, cache, m) : m \in matches }

(* metadata.go: enrichSession: the possible results for one session *)
enrichSession(session, cwd, now, fs, idx, cache) ==
    LET inDir == EncodePath(cwd) = MainProjectDir
        fromIndex == IF inDir THEN findSessionFromIndex(idx) ELSE {NotFound}
        matches == { IF m.found THEN m
                     ELSE IF inDir THEN findSessionFallback(fs, FileNames)
                     ELSE NotFound : m \in fromIndex }
    IN  { IF ~m.found
          THEN [session |-> [session EXCEPT !.State = StateIdle], write |-> NoWrite,
                hit |-> FALSE]
          ELSE EnrichMatched(session, cwd, now, fs, cache, m) : m \in matches }

----------------------------------------------------------------------------
(* tui.go: the live refresh loop.  Init starts one discovery goroutine and *)
(* one timer; a tickMsg starts a goroutine, a sessionsRefreshedMsg starts  *)
(* a timer.  A goroutine runs DiscoverAll in steps: the scan (ps, lsof,    *)
(* lock files, fusion), then for each session the lookup part of           *)
(* enrichSession and, after a miss, its store into metadataCache.          *)
(***************************************************************************)

TimeAt(i) ==
    IF i = 0 THEN 0
    ELSE IF i = 1 THEN 30
    ELSE IF i = 2 THEN 300
    ELSE 300 + 30 * (i - 2)

now == TimeAt(clock)

Slots == {1, 2}

\* a goroutine slot: phase is its position in DiscoverAll, list the sessions,
\* i the session being enriched, now the time.Now() of EnrichSessions, pend
\* the entry about to be stored, hit whether the last lookup hit the cache
IdlePass ==
    [phase |-> "idle", list |-> <<>>, i |-> 0, now |-> 0, pend |-> NoWrite, hit |-> FALSE]

Running == ~quit /\ ~crashed

\* the process tables and lock directories a scan may see
MainWorlds ==
    { [procs |-> <<>>, locks |-> <<>>, alive |-> {}],
      [procs |-> << [TTY |-> "ttys001", Command |-> << <<"usr", "bin", "claude">> >>,
                     cwd |-> [ok |-> TRUE, path |-> PathA]] >>,
       locks |-> <<>>, alive |-> {}],
      [procs |-> << [TTY |-> "??", Command |-> << <<"usr", "bin", "claude">> >>,
                     cwd |-> [ok |-> TRUE, path |-> PathC]],
                    [TTY |-> "ttys001", Command |-> << <<"usr", "bin", "claude">> >>,
                     cwd |-> [ok |-> TRUE, path |-> PathA]] >>,
       locks |-> << [readable |-> TRUE, PID |-> 7, WorkspaceFolders |-> <<PathC>>,
                     IDEName |-> "Cursor"] >>,
       alive |-> {7}] }

LineA == FullLine("assistant", "assistant", StringContent, "calm-river", "0a1b2c3d-9999", "main")

LineQ == FullLine("assistant", "assistant",
                  BlockContent(<< [type |-> "text", name |-> ""],
                                  [type |-> "tool_use", name |-> "AskUserQuestion"] >>),
                  "", "0a1b2c3d-9999", "main")

LineU == FullLine("user", "user", StringContent, "", "", "dev")

LineP == FullLine("progress", "", NoContent, "", "", "main")

MainLines == {LineA, LineQ, LineU, LineP}

MainPrompts == {"", "# fix bug"}

\* a Session as discovery creates it: the other fields hold Go's zero values
NewSession(f) ==
    [PID |-> f.PID, CWD |-> f.CWD, Source |-> f.Source,
     State |-> StateActive, Topic |-> "", Messages |-> 0, Branch |-> ""]

(* tui.go: model.Init *)
Init ==
    /\ clock = 0
    /\ files = [n \in {FileNames[k] : k \in 1..Len(FileNames)} |->
                   [exists |-> FALSE, mtime |-> 0, first |-> "", lines |-> <<>>]]
    /\ index = NoIndex
    /\ appends = 0
    /\ indexWrites = 0
    /\ metadataCache = <<>>
    /\ passes = [p \in Slots |-> IF p = 1 THEN [IdlePass EXCEPT !.phase = "scan"]
                                 ELSE IdlePass]
    /\ timers = 1
    /\ sessions = <<>>
    /\ firstRefresh = FALSE
    /\ quit = FALSE
    /\ crashed = FALSE
    /\ dsFile = NoFile /\ dsMtime = 0 /\ dsNow = 0 /\ dsState = "none"
    /\ fuEntries = <<>> /\ fuCwdMap = <<>> /\ fuLocks = <<>>
    /\ fuAlive = {} /\ fuResult = <<>> /\ fuDone = FALSE
    /\ IdleRl /\ IdleCall /\ IdleUi

(* tui.go: Update, case tickMsg: return m, refreshSessionsCmd() *)
TickStartsPass(p) == [passes EXCEPT ![p] = [IdlePass EXCEPT !.phase = "scan"]]

(* tui.go: a tea.Tick timer fires and Update handles the tickMsg *)
TickFires ==
    /\ Running
    /\ timers > 0
    /\ \E p \in Slots :
          /\ passes[p].phase = "idle"
          /\ \A q \in Slots : q < p => passes[q].phase # "idle"
          /\ passes' = TickStartsPass(p)
    /\ timers' = timers - 1
    /\ UNCHANGED <<dsVars, fuVars, uiVars, rlVars, callVars, envVars, metadataCache, sessions, firstRefresh, quit, crashed>>

(* discovery.go: DiscoverAll up to time.Now() in EnrichSessions *)
PassScan(p) ==
    /\ Running
    /\ passes[p].phase = "scan"
    /\ \E w \in MainWorlds :
          LET fused == FuseSessions(FuseEntriesOf(w.procs), FuseCwdMapOf(w.procs),
                                    w.locks, w.alive)
              list == [k \in 1..Len(fused) |-> NewSession(fused[k])]
          IN  passes' = [passes EXCEPT ![p] =
                            IF Len(list) = 0
                            THEN [IdlePass EXCEPT !.phase = "done"]
                            ELSE [phase |-> "enrich", list |-> list, i |-> 1,
                                  now |-> now, pend |-> NoWrite, hit |-> FALSE]]
    /\ UNCHANGED <<dsVars, fuVars, uiVars, rlVars, callVars, envVars, metadataCache, timers, sessions, firstRefresh, quit, crashed>>

\* the pass after the enrichment of session i is complete
Advance(pass) ==
    IF pass.i >= Len(pass.list)
    THEN [pass EXCEPT !.phase = "done", !.pend = NoWrite]
    ELSE [pass EXCEPT !.phase = "enrich", !.i = pass.i + 1, !.pend = NoWrite]

(* metadata.go: enrichSession up to its last statement *)
PassEnrich(p) ==
    /\ Running
    /\ passes[p].phase = "enrich"
    /\ LET pass == passes[p]
           s == pass.list[pass.i]
       IN  \E r \in enrichSession(s, s.CWD, pass.now, files, index, metadataCache) :
              LET next == [pass EXCEPT !.list[pass.i] = r.session, !.hit = r.hit]
              IN  passes' = [passes EXCEPT ![p] =
                                IF r.write.has
                                THEN [next EXCEPT !.phase = "store", !.pend = r.write]
                                ELSE Advance(next)]
    /\ UNCHANGED <<dsVars, fuVars, uiVars, rlVars, callVars, envVars, metadataCache, timers, sessions, firstRefresh, quit, crashed>>

\* the map with the entry stored
Put(cache, key, val) ==
    [k \in DOMAIN cache \cup {key} |-> IF k = key THEN val ELSE cache[k]]

(* metadata.go: enrichSession, metadataCache[cacheKey] = cachedMetadata{...} *)
PassStore(p) ==
    /\ Running
    /\ passes[p].phase = "store"
    /\ metadataCache' = Put(metadataCache, passes[p].pend.key, passes[p].pend.val)
    /\ passes' = [passes EXCEPT ![p] = Advance(passes[p])]
    /\ UNCHANGED <<dsVars, fuVars, uiVars, rlVars, callVars, envVars, timers, sessions, firstRefresh, quit, crashed>>

(* Two goroutines use the unsynchronised map at once, one of them writing: *)
(* the Go runtime may stop the process ("fatal error: concurrent map       *)
(* writes", "concurrent map read and map write").                          *)
RaceAbort ==
    /\ Running
    /\ \E p, q \in Slots :
          /\ p # q
          /\ passes[p].phase = "store"
          /\ passes[q].phase \in {"enrich", "store"}
    /\ crashed' = TRUE
    /\ UNCHANGED <<dsVars, fuVars, uiVars, rlVars, callVars, envVars, metadataCache, passes, timers, sessions, firstRefresh, quit>>

(* tui.go: a goroutine returns and Update handles its sessionsRefreshedMsg, *)
(* case sessionsRefreshedMsg: return m, tickCmd()                           *)
Deliver(p) ==
    /\ Running
    /\ passes[p].phase = "done"
    /\ sessions' = passes[p].list
    /\ firstRefresh' = TRUE
    /\ timers' = timers + 1
    /\ passes' = [passes EXCEPT ![p] = IdlePass]
    /\ UNCHANGED <<dsVars, fuVars, uiVars, rlVars, callVars, envVars, metadataCache, quit, crashed>>

(* tui.go: Update, case tea.KeyMsg: ctrl+c, or q in normal mode *)
UserQuits ==
    /\ Running
    /\ quit' = TRUE
    /\ UNCHANGED <<dsVars, fuVars, uiVars, rlVars, callVars, envVars, metadataCache, passes, timers, sessions, firstRefresh, crashed>>

\* time passes
ClockTick ==
    /\ Running
    /\ clock < MaxTick
    /\ clock' = clock + 1
    /\ UNCHANGED <<dsVars, fuVars, uiVars, rlVars, callVars, files, index, appends, indexWrites, metadataCache, tuiVars>>

\* a claude session appends a line to its transcript, creating it if needed
AppendLine(name) ==
    /\ Running
    /\ appends < MaxAppends
    /\ \E line \in MainLines :
          IF files[name].exists
          THEN files' = [files EXCEPT ![name].lines = Append(@, line),
                                      ![name].mtime = now]
          ELSE \E prompt \in MainPrompts :
                  files' = [files EXCEPT ![name] =
                               [exists |-> TRUE, mtime |-> now, first |-> prompt,
                                lines |-> <<line>>]]
    /\ appends' = appends + 1
    /\ UNCHANGED <<dsVars, fuVars, uiVars, rlVars, callVars, clock, index, indexWrites, metadataCache, tuiVars>>

\* the number of user and assistant messages among the lines
MessageLines(lines) ==
    Cardinality({ k \in 1..Len(lines) : lines[k].type \in {"user", "assistant"} })

\* claude rewrites sessions-index.json from the transcript as it is now
WriteIndex(name) ==
    /\ Running
    /\ indexWrites < MaxIndexWrites
    /\ files[name].exists
    /\ LET lastEntry == UnmarshalLine(ReadLastLine(FileAt(files, name)))
       IN  index' = [readable |-> TRUE,
                     entries |-> << [FullPath |-> name,
                                     FirstPrompt |-> files[name].first,
                                     MessageCount |-> MessageLines(files[name].lines),
                                     GitBranch |-> lastEntry.GitBranch,
                                     FileMtime |-> files[name].mtime] >>]
    /\ indexWrites' = indexWrites + 1
    /\ UNCHANGED <<dsVars, fuVars, uiVars, rlVars, callVars, clock, files, appends, metadataCache, tuiVars>>

Next ==
    \/ TickFires
    \/ \E p \in Slots : PassScan(p)
    \/ \E p \in Slots : PassEnrich(p)
    \/ \E p \in Slots : PassStore(p)
    \/ RaceAbort
    \/ \E p \in Slots : Deliver(p)
    \/ UserQuits
    \/ ClockTick
    \/ \E k \in 1..Len(FileNames) : AppendLine(FileNames[k])
    \/ \E k \in 1..Len(FileNames) : WriteIndex(FileNames[k])

Spec == Init /\ [][Next]_vars

(* bubbletea: once tea.Quit or the fatal error has ended the process its   *)
(* goroutines take no further step; the runtime runs every started Cmd and *)
(* delivers its message, and every timer fires.                            *)
FairSpec ==
    /\ Spec
    /\ WF_vars(TickFires)
    /\ \A p \in Slots : WF_vars(PassScan(p))
    /\ \A p \in Slots : WF_vars(PassEnrich(p))
    /\ \A p \in Slots : WF_vars(PassStore(p))
    /\ \A p \in Slots : WF_vars(Deliver(p))

----------------------------------------------------------------------------
(* Claims about the refresh loop, the delivered sessions and the cache.    *)
(***************************************************************************)

InFlight(p) == passes[p].phase \in {"scan", "enrich", "store"}

\* C1: at most one discovery pass is executing at any moment, so the
\* metadata cache map has a single writer at all times.
C1_SinglePassInFlight ==
    Cardinality({ p \in Slots : InFlight(p) }) <= 1

c8Enriches(p) ==
    /\ passes[p].phase = "enrich"
    /\ passes'[p] # passes[p]

c8Name == FileNames[1]

\* the session being enriched by slot p has the transcript as its match
c8OnTranscript(p) ==
    /\ EncodePath(passes[p].list[passes[p].i].CWD) = MainProjectDir
    /\ files[c8Name].exists

c8Last == UnmarshalLine(ReadLastLine(FileAt(files, c8Name)))

c8Key(p) == CacheKey(passes[p].list[passes[p].i].CWD, files[c8Name].mtime)

c8Age(p) == passes[p].now - files[c8Name].mtime

\* what the claim requires of the enrichment of slot p, given the state
\* expected after 30 seconds
c8Result(p, later) ==
    LET enriched == passes'[p].list[passes[p].i]
    IN  /\ enriched.State = IF c8Age(p) < 30 THEN StateActive ELSE later
        /\ c8Key(p) \in DOMAIN metadataCache =>
              /\ enriched.Topic = metadataCache[c8Key(p)].Topic
              /\ enriched.Messages = metadataCache[c8Key(p)].Messages
              /\ enriched.Branch = metadataCache[c8Key(p)].Branch

C9_CacheOnlyGrows ==
    [][\A k \in DOMAIN metadataCache :
          /\ k \in DOMAIN metadataCache'
          /\ metadataCache'[k] = metadataCache[k]]_vars

\* C10: in live mode, until the user quits, discovery recurs forever: again
\* and again a discovery pass starts.
C10_DiscoveryRecurs ==
    []<>(quit \/ \E p \in Slots : passes[p].phase = "scan")

\* C11: DiscoverAll always terminates and returns its list: a pass that has
\* started is completed (or the user has quit, which ends the process).
C11_PassAlwaysReturns ==
    \A p \in Slots : InFlight(p) ~> (quit \/ passes[p].phase = "done")

----------------------------------------------------------------------------
(* SpecEnrich: one call of enrichSession for a freshly discovered session, *)
(* on bounded project directories, index files and caches.                 *)
(***************************************************************************)

\* the name an index entry gives to a transcript that no longer exists
GoneName == "gone.jsonl"

IndexEntry(fullPath, fileMtime) ==
    [FullPath |-> fullPath, FirstPrompt |-> "# fix bug", MessageCount |-> 3,
     GitBranch |-> "main", FileMtime |-> fileMtime]

EnrichIndexes ==
    { NoIndex,
      [readable |-> TRUE, entries |-> <<>>],
      [readable |-> TRUE, entries |-> << IndexEntry(FileNames[1], 0) >>],
      [readable |-> TRUE, entries |-> << IndexEntry(GoneName, 0) >>],
      [readable |-> TRUE, entries |-> << IndexEntry("", 0) >>],
      [readable |-> TRUE, entries |-> << IndexEntry(GoneName, 0),
                                         IndexEntry(FileNames[1], 0) >>] }

EnrichFiles ==
    { [n \in {FileNames[1]} |-> [exists |-> FALSE, mtime |-> 0, first |-> "", lines |-> <<>>]] }
    \cup { [n \in {FileNames[1]} |->
               [exists |-> TRUE, mtime |-> 0, first |-> prompt, lines |-> <<line>>]] :
           prompt \in MainPrompts, line \in MainLines }

EnrichCaches ==
    { <<>>,
      [k \in {CacheKey(PathA, 0)} |->
          CachedMetadata(FileNames[1], "earlier topic", 5, "release")] }

EnrichCwds == {PathA, PathC}

InitEnrich ==
    /\ clock \in 0..MaxTick
    /\ files \in EnrichFiles
    /\ index \in EnrichIndexes
    /\ metadataCache \in EnrichCaches
    /\ \E cwd \in EnrichCwds :
          passes = [p \in Slots |->
                       IF p = 1
                       THEN [phase |-> "enrich",
                             list |-> << NewSession([PID |-> 1, CWD |-> cwd,
                                                     Source |-> "CLI"]) >>,
                             i |-> 1, now |-> TimeAt(clock), pend |-> NoWrite,
                             hit |-> FALSE]
                       ELSE IdlePass]
    /\ timers = 0
    /\ sessions = <<>>
    /\ firstRefresh = FALSE
    /\ quit = FALSE
    /\ crashed = FALSE
    /\ appends = 0
    /\ indexWrites = 0
    /\ dsFile = NoFile /\ dsMtime = 0 /\ dsNow = 0 /\ dsState = "none"
    /\ fuEntries = <<>> /\ fuCwdMap = <<>> /\ fuLocks = <<>>
    /\ fuAlive = {} /\ fuResult = <<>> /\ fuDone = FALSE
    /\ IdleRl /\ IdleCall /\ IdleUi

NextEnrich ==
    \/ PassEnrich(1)
    \/ PassStore(1)

SpecEnrich == InitEnrich /\ [][NextEnrich]_vars

\* the transcripts enrichSession may match for the session slot p is
\* enriching (the index first, the newest file otherwise)
enMatches(p) ==
    LET cwd == passes[p].list[passes[p].i].CWD
        inDir == EncodePath(cwd) = MainProjectDir
        fromIndex == IF inDir THEN findSessionFromIndex(index) ELSE {NotFound}
    IN  { IF m.found THEN m
          ELSE IF inDir THEN findSessionFallback(files, FileNames)
          ELSE NotFound : m \in fromIndex }

\* no transcript is matched, or the matched transcript cannot be stat'ed
enDegraded(p) ==
    \A m \in enMatches(p) : ~m.found \/ ~FileAt(files, m.fullPath).open

\* C12: when no transcript is matched, or the matched one cannot be
\* stat'ed, the session is still returned, with state Idle, empty topic,
\* empty branch and message count 0, and the enrichment leaves the metadata
\* cache unchanged (nothing is stored).
C12_DegradedSession ==
    [][\A p \in Slots :
          (passes[p].phase = "enrich" /\ passes'[p] # passes[p] /\ enDegraded(p))
          => LET before == passes[p].list[passes[p].i]
                 after == passes'[p].list[passes[p].i]
             IN  /\ Len(passes'[p].list) = Len(passes[p].list)
                 /\ after.PID = before.PID
                 /\ after.CWD = before.CWD
                 /\ after.Source = before.Source
                 /\ after.State = StateIdle
                 /\ after.Topic = ""
                 /\ after.Branch = ""
                 /\ after.Messages = 0
                 /\ metadataCache' = metadataCache
                 /\ passes'[p].phase # "store"]_vars

\* the index named a transcript that is gone and the call has returned an
\* Idle session although the cache holds an entry for the directory
C12_Witness ==
    /\ passes[1].phase = "done"
    /\ index.readable
    /\ Len(index.entries) = 1
    /\ index.entries[1].FullPath = GoneName
    /\ files[FileNames[1]].exists
    /\ metadataCache # <<>>
    /\ passes[1].list[1].CWD = PathA
    /\ passes[1].list[1].State = StateIdle
    /\ passes[1].list[1].Topic = ""

----------------------------------------------------------------------------
(* SpecReadLastLine: metadata.go, ReadLastLine on the bytes of a file, one *)
(* step per iteration of its backward loop.  A text is the sequence of its *)
(* bytes; NL is the newline.                                               *)
(***************************************************************************)

NL == "\n"

Bytes == {"a", "b", NL}

\* the sequences over S of length n
RECURSIVE SeqsOfLen(_, _)
SeqsOfLen(S, n) ==
    IF n = 0 THEN { <<>> }
    ELSE { Append(t, x) : t \in SeqsOfLen(S, n - 1), x \in S }

SeqsUpTo(S, n) == UNION { SeqsOfLen(S, k) : k \in 0..n }

\* a mutant of TrimRight: only one trailing newline is removed
TrimRight_single(str) ==
    IF Len(str) > 0 /\ str[Len(str)] = NL THEN SubSeq(str, 1, Len(str) - 1) ELSE str

(* strings.TrimRight(str, "\n") *)
RECURSIVE TrimRight(_)
TrimRight(str) ==
    IF Len(str) > 0 /\ str[Len(str)] = NL
    THEN TrimRight(SubSeq(str, 1, Len(str) - 1))
    ELSE str

(* strings.LastIndexByte(str, '\n'), counted from 1; 0 when there is none *)
LastIndexNL(str) ==
    IF \E k \in 1..Len(str) : str[k] = NL
    THEN CHOOSE k \in 1..Len(str) :
            str[k] = NL /\ \A j \in (k + 1)..Len(str) : str[j] # NL
    ELSE 0

\* failAt is the offset at which file.ReadAt fails, -1 if it never does
ReadLastLineFiles ==
    { [open |-> FALSE, bytes |-> <<>>, failAt |-> -1] }
    \cup { [open |-> TRUE, bytes |-> b, failAt |-> -1] : b \in SeqsUpTo(Bytes, MaxFileLen) }
    \cup { [open |-> TRUE, bytes |-> <<"a", NL, "b", NL>>, failAt |-> f] : f \in {0, 2} }

InitReadLastLine ==
    /\ rlFile \in ReadLastLineFiles
    /\ rlOffset = 0
    /\ rlBuf = <<>>
    /\ rlResult = <<>>
    /\ rlPc = "open"
    /\ dsFile = NoFile /\ dsMtime = 0 /\ dsNow = 0 /\ dsState = "none"
    /\ fuEntries = <<>> /\ fuCwdMap = <<>> /\ fuLocks = <<>>
    /\ fuAlive = {} /\ fuResult = <<>> /\ fuDone = FALSE
    /\ clock = 0 /\ files = <<>> /\ index = <<>> /\ metadataCache = <<>>
    /\ passes = <<>> /\ timers = 0 /\ sessions = <<>> /\ firstRefresh = FALSE
    /\ quit = FALSE /\ crashed = FALSE /\ appends = 0 /\ indexWrites = 0
    /\ IdleCall /\ IdleUi

(* ReadLastLine: os.Open, file.Stat, offset := fileSize *)
ReadLastLineOpen ==
    /\ rlPc = "open"
    /\ IF ~rlFile.open \/ Len(rlFile.bytes) = 0
       THEN /\ rlResult' = <<>>
            /\ rlPc' = "done"
            /\ UNCHANGED <<rlOffset, rlBuf>>
       ELSE /\ rlOffset' = Len(rlFile.bytes)
            /\ rlBuf' = <<>>
            /\ rlPc' = "loop"
            /\ UNCHANGED rlResult
    /\ UNCHANGED <<rlFile, dsVars, fuVars, uiVars, mainVars, callVars>>

(* ReadLastLine: one iteration of for offset > 0 { ... }, and the return   *)
(* after the loop when the iteration leaves offset = 0                     *)
ReadLastLineLoop ==
    /\ rlPc = "loop"
    /\ rlOffset > 0
    /\ LET readSize == IF readSizeMax > rlOffset THEN rlOffset ELSE readSizeMax
           offset == rlOffset - readSize
           chunk == SubSeq(rlFile.bytes, offset + 1, offset + readSize)
           buf == chunk \o rlBuf
           content == TrimRight(buf)
           lastNewline == LastIndexNL(content)
       IN  /\ rlOffset' = offset
           /\ IF rlFile.failAt = offset
              THEN /\ rlResult' = <<>>
                   /\ rlPc' = "done"
                   /\ UNCHANGED rlBuf
              ELSE /\ rlBuf' = buf
                   /\ IF lastNewline > 0
                      THEN /\ rlResult' = SubSeq(content, lastNewline + 1, Len(content))
                           /\ rlPc' = "done"
                      ELSE IF offset > 0
                           THEN /\ rlPc' = "loop"
                                /\ UNCHANGED rlResult
                           ELSE /\ rlResult' = TrimRight(buf)
                                /\ rlPc' = "done"
    /\ UNCHANGED <<rlFile, dsVars, fuVars, uiVars, mainVars, callVars>>

NextReadLastLine ==
    \/ ReadLastLineOpen
    \/ ReadLastLineLoop

SpecReadLastLine == InitReadLastLine /\ [][NextReadLastLine]_vars

\* the text after the last newline of str, all of str when it has none
AfterLastNL(str) == SubSeq(str, LastIndexNL(str) + 1, Len(str))

\* str without the newline it ends in, if it ends in one
rlTrimOne(str) ==
    IF Len(str) > 0 /\ str[Len(str)] = NL THEN SubSeq(str, 1, Len(str) - 1) ELSE str

\* str without the newlines it ends in
rlTrimAll(str) ==
    LET keep == { k \in 0..Len(str) : \A j \in (k + 1)..Len(str) : str[j] = NL }
    IN  SubSeq(str, 1, CHOOSE k \in keep : \A j \in keep : k <= j)

rlReturned == rlPc = "done" /\ rlFile.failAt = -1

\* C13 as stated: for every file content ReadLastLine returns the text after
\* the last line boundary with the (one) trailing newline trimmed: the last
\* line of the file, the empty string for an empty or unopenable file.
C13_LastLineOneNewlineTrimmed ==
    rlReturned =>
        rlResult = IF rlFile.open THEN AfterLastNL(rlTrimOne(rlFile.bytes)) ELSE <<>>

\* C13 amended: for every file content ReadLastLine returns the last line
\* that is not empty: the text after the last newline of the content with
\* all the newlines it ends in trimmed (the empty string for an empty,
\* all-newline or unopenable file); the result holds no newline, does not
\* depend on how the content falls across the chunks, and every iteration of
\* the backward loop lowers the offset, holding the bytes from it on, until
\* a line boundary or the file start ends the loop.
C13_LastNonEmptyLine ==
    /\ [](/\ rlReturned =>
               /\ rlResult = IF rlFile.open
                             THEN AfterLastNL(rlTrimAll(rlFile.bytes)) ELSE <<>>
               /\ \A k \in 1..Len(rlResult) : rlResult[k] # NL
          /\ rlPc = "loop" =>
               /\ rlOffset \in 1..Len(rlFile.bytes)
               /\ rlBuf = SubSeq(rlFile.bytes, rlOffset + 1, Len(rlFile.bytes)))
    /\ [][rlPc = "loop" => (rlOffset' < rlOffset /\ (rlPc' = "loop" => rlOffset' > 0))]_vars

\* a file of two lines followed by an empty line, longer than two chunks,
\* has been read and its last non-empty line returned
C13_Witness ==
    /\ rlReturned
    /\ rlFile.bytes = <<"a", NL, "b", NL, NL>>
    /\ rlResult = <<"b">>
    /\ rlOffset < Len(rlFile.bytes) - readSizeMax

----------------------------------------------------------------------------
(* SpecParseEtime: discovery.go, ParseEtime on the text of a ps etime      *)
(* column.  A text is the sequence of its characters.  A time.Duration is  *)
(* an int64 count of nanoseconds: the model holds it as whole days and     *)
(* seconds, or as wrapped when the count does not fit 63 bits.             *)
(***************************************************************************)

\* floor((2^63 - 1) / 10^9) seconds = 106751 days and 85636 seconds
durationMaxDays == 106751

durationMaxRest == 85636

secondsPerDay == 86400

DigitChars == {"0", "1", "2", "3", "4", "5", "6", "7", "8", "9"}

DigitValue(c) == CHOOSE d \in 0..9 : DigitChar(d) = c

(* strconv.Atoi for a text without sign: ok is err == nil *)
RECURSIVE AtoiFrom(_, _, _)
AtoiFrom(str, k, acc) ==
    IF k > Len(str) THEN acc
    ELSE AtoiFrom(str, k + 1, acc * 10 + DigitValue(str[k]))

Atoi(str) ==
    IF Len(str) > 0 /\ \A k \in 1..Len(str) : str[k] \in DigitChars
    THEN [ok |-> TRUE, val |-> AtoiFrom(str, 1, 0)]
    ELSE [ok |-> FALSE, val |-> 0]

(* strings.TrimSpace, for texts whose only white space is the blank *)
RECURSIVE TrimSpace(_)
TrimSpace(str) ==
    IF Len(str) > 0 /\ str[1] = " " THEN TrimSpace(SubSeq(str, 2, Len(str)))
    ELSE IF Len(str) > 0 /\ str[Len(str)] = " "
         THEN TrimSpace(SubSeq(str, 1, Len(str) - 1))
         ELSE str

(* strings.IndexByte(str, c), counted from 1; 0 when there is none *)
IndexByte(str, c) ==
    IF \E k \in 1..Len(str) : str[k] = c
    THEN CHOOSE k \in 1..Len(str) : str[k] = c /\ \A j \in 1..(k - 1) : str[j] # c
    ELSE 0

(* strings.Split(str, sep) for a separator of one character *)
RECURSIVE Split(_, _)
Split(str, sep) ==
    LET idx == IndexByte(str, sep)
    IN  IF idx = 0 THEN << str >>
        ELSE << SubSeq(str, 1, idx - 1) >> \o Split(SubSeq(str, idx + 1, Len(str)), sep)

(* time.Duration(totalSeconds) * time.Second for totalSeconds = days*86400 *)
(* + rest >= 0: the int64 product wraps when totalSeconds*10^9 > 2^63 - 1  *)
Duration(days, rest) ==
    LET d == days + rest \div secondsPerDay
        r == rest % secondsPerDay
    IN  IF d > durationMaxDays \/ (d = durationMaxDays /\ r > durationMaxRest)
        THEN [wrapped |-> TRUE, days |-> 0, secs |-> 0]
        ELSE [wrapped |-> FALSE, days |-> d, secs |-> r]

(* discovery.go: ParseEtime *)
ParseEtime(etime0) ==
    LET etime1 == TrimSpace(etime0)
        idx == IndexByte(etime1, "-")
        d == Atoi(SubSeq(etime1, 1, idx - 1))
        days == IF idx # 0 /\ d.ok THEN d.val ELSE 0
        etime == IF idx # 0 THEN SubSeq(etime1, idx + 1, Len(etime1)) ELSE etime1
        parts == Split(etime, ":")
        hours == IF Len(parts) = 3 THEN Atoi(parts[1]).val ELSE 0
        minutes == IF Len(parts) = 3 THEN Atoi(parts[2]).val
                   ELSE IF Len(parts) = 2 THEN Atoi(parts[1]).val ELSE 0
        seconds == IF Len(parts) \in {1, 2, 3} THEN Atoi(parts[Len(parts)]).val ELSE 0
    IN  Duration(days, hours * 3600 + minutes * 60 + seconds)

\* the field values of the elapsed times the specification formats
EtimeDays == {1, 2, durationMaxDays, durationMaxDays + 1}

EtimeHours == {0, 1, 23}

EtimeMinutes == {0, 1, 59}

EtimeSeconds == {0, 5, 30, 59}

\* two digits, as ps prints the fields after the first
Pad2(n) == IF n < 10 THEN <<"0">> \o Digits(n) ELSE Digits(n)

\* what ps prints for an elapsed time of the shape: 1 is SS, 2 is MM:SS,
\* 3 is HH:MM:SS, 4 is D-HH:MM:SS
FormatEtime(shape, d, h, m, sec) ==
    IF shape = 1 THEN Digits(sec)
    ELSE IF shape = 2 THEN Digits(m) \o <<":">> \o Pad2(sec)
    ELSE IF shape = 3 THEN Digits(h) \o <<":">> \o Pad2(m) \o <<":">> \o Pad2(sec)
    ELSE Digits(d) \o <<"-">> \o Pad2(h) \o <<":">> \o Pad2(m) \o <<":">> \o Pad2(sec)

EtimeArgs ==
    { [text |-> lead \o FormatEtime(shape, d, h, m, sec), shape |-> shape,
       d |-> IF shape = 4 THEN d ELSE 0,
       h |-> IF shape >= 3 THEN h ELSE 0,
       m |-> IF shape >= 2 THEN m ELSE 0,
       sec |-> sec] :
      lead \in {<<>>, <<" ", " ">>}, shape \in 1..4, d \in EtimeDays,
      h \in EtimeHours, m \in EtimeMinutes, sec \in EtimeSeconds }
    \cup { [text |-> t, shape |-> 0, d |-> 0, h |-> 0, m |-> 0, sec |-> 0] :
           t \in { <<>>, <<"x">>, <<"1", ":", "2", ":", "3", ":", "4">>,
                   <<"x", "-", "0", "5">>, <<"-", "5">> } }

InitParseEtime ==
    /\ callArg \in EtimeArgs
    /\ callRet = <<>>
    /\ callDone = FALSE
    /\ dsFile = NoFile /\ dsMtime = 0 /\ dsNow = 0 /\ dsState = "none"
    /\ fuEntries = <<>> /\ fuCwdMap = <<>> /\ fuLocks = <<>>
    /\ fuAlive = {} /\ fuResult = <<>> /\ fuDone = FALSE
    /\ clock = 0 /\ files = <<>> /\ index = <<>> /\ metadataCache = <<>>
    /\ passes = <<>> /\ timers = 0 /\ sessions = <<>> /\ firstRefresh = FALSE
    /\ quit = FALSE /\ crashed = FALSE /\ appends = 0 /\ indexWrites = 0
    /\ IdleRl /\ IdleUi

CallParseEtime ==
    /\ ~callDone
    /\ callRet' = ParseEtime(callArg.text)
    /\ callDone' = TRUE
    /\ UNCHANGED <<callArg, dsVars, fuVars, uiVars, mainVars, rlVars>>

NextParseEtime == CallParseEtime

SpecParseEtime == InitParseEtime /\ [][NextParseEtime]_vars

\* C14: ParseEtime is exact on every elapsed-time string of the four shapes
\* SS, MM:SS, HH:MM:SS and D-HH:MM:SS, ignoring leading whitespace: the
\* result is days*86400 + hours*3600 + minutes*60 + seconds seconds.
C14_ParseEtimeExact ==
    (callDone /\ callArg.shape \in 1..4) =>
        /\ ~callRet.wrapped
        /\ callRet.days = callArg.d
        /\ callRet.secs = callArg.h * 3600 + callArg.m * 60 + callArg.sec

----------------------------------------------------------------------------
(* SpecEncodePath: discovery.go, EncodePath on bounded paths *)

PathChars == {"/", ".", "-", "a"}

InitEncodePath ==
    /\ callArg \in SeqsUpTo(PathChars, MaxPathLen)
    /\ callRet = <<>>
    /\ callDone = FALSE
    /\ dsFile = NoFile /\ dsMtime = 0 /\ dsNow = 0 /\ dsState = "none"
    /\ fuEntries = <<>> /\ fuCwdMap = <<>> /\ fuLocks = <<>>
    /\ fuAlive = {} /\ fuResult = <<>> /\ fuDone = FALSE
    /\ clock = 0 /\ files = <<>> /\ index = <<>> /\ metadataCache = <<>>
    /\ passes = <<>> /\ timers = 0 /\ sessions = <<>> /\ firstRefresh = FALSE
    /\ quit = FALSE /\ crashed = FALSE /\ appends = 0 /\ indexWrites = 0
    /\ IdleRl /\ IdleUi

CallEncodePath ==
    /\ ~callDone
    /\ callRet' = EncodePath(callArg)
    /\ callDone' = TRUE
    /\ UNCHANGED <<callArg, dsVars, fuVars, uiVars, mainVars, rlVars>>

NextEncodePath == CallEncodePath

SpecEncodePath == InitEncodePath /\ [][NextEncodePath]_vars

\* C15: EncodePath is total: the result has the length of the input, every
\* '/' and every '.' is replaced by '-', every other character is kept in
\* place, and the empty path encodes to the empty string.
C15_EncodePathTotal ==
    callDone =>
        /\ Len(callRet) = Len(callArg)
        /\ \A k \in 1..Len(callArg) :
              /\ callArg[k] \in {"/", "."} => callRet[k] = "-"
              /\ callArg[k] \notin {"/", "."} => callRet[k] = callArg[k]
        /\ callArg = <<>> => callRet = <<>>

\* a path with a separator, a dot and a hyphen has been encoded
C15_Witness ==
    /\ callDone
    /\ callArg = <<"/", "a", ".", "-">>
    /\ callRet = <<"-", "a", "-", "-">>

----------------------------------------------------------------------------
(* SpecParsePS: discovery.go, ParsePS on the text of a ps output.  The     *)
(* text is built from lines of words; ParsePS sees only the characters.    *)
(***************************************************************************)

(* strings.Contains(str, sub) *)
Contains(str, sub) ==
    \E k \in 1..(Len(str) - Len(sub) + 1) : SubSeq(str, k, k + Len(sub) - 1) = sub

(* strings.Fields(str), for texts whose only white space is the blank *)
RECURSIVE Fields(_)
Fields(str) ==
    LET t == TrimSpace(str)
        idx == IndexByte(t, " ")
    IN  IF t = <<>> THEN <<>>
        ELSE IF idx = 0 THEN << t >>
        ELSE << SubSeq(t, 1, idx - 1) >> \o Fields(SubSeq(t, idx + 1, Len(t)))

(* strings.Join(parts, sep) *)
RECURSIVE Join(_, _)
Join(parts, sep) ==
    IF Len(parts) = 0 THEN <<>>
    ELSE IF Len(parts) = 1 THEN parts[1]
    ELSE parts[1] \o sep \o Join(Tail(parts), sep)

claudeName == <<"c", "l", "a", "u", "d", "e">>

grepName == <<"g", "r", "e", "p">>

pidHeader == <<"P", "I", "D">>

(* discovery.go: ParsePS, the body of the loop for one line: the entries   *)
(* with the line's entry appended, or unchanged when the line is skipped   *)
ParsePSLine(entries, line0) ==
    LET line == TrimSpace(line0)
        fields == Fields(line)
        pid == Atoi(fields[1])
    IN  IF line = <<>> \/ HasPrefix(line, pidHeader) THEN entries
        ELSE IF ~Contains(line, claudeName) THEN entries
        ELSE IF Contains(line, grepName) THEN entries
        ELSE IF Len(fields) < 4 THEN entries
        ELSE IF ~pid.ok THEN entries
        ELSE Append(entries, [PID |-> pid.val, Etime |-> fields[2], TTY |-> fields[3],
                              Command |-> Join(SubSeq(fields, 4, Len(fields)), <<" ">>)])

RECURSIVE ParsePSFrom(_, _, _)
ParsePSFrom(lines, k, entries) ==
    IF k > Len(lines) THEN entries
    ELSE ParsePSFrom(lines, k + 1, ParsePSLine(entries, lines[k]))

(* discovery.go: ParsePS *)
ParsePS(output) == ParsePSFrom(Split(output, NL), 1, <<>>)

\* the lines of the ps outputs, as their words
PsHeaderLine == << <<"P", "I", "D">>, <<"E", "L", "A", "P", "S", "E", "D">>, <<"T", "T">>, <<"C", "O", "M", "M", "A", "N", "D">> >>

PsLines ==
    { PsHeaderLine,
      << <<"1", "2">>, <<"0", "1", ":", "0", "0">>, <<"t", "t", "y", "s", "0", "0", "1">>, <<"c", "l", "a", "u", "d", "e">> >>,
      << <<"1", "3">>, <<"0", "2", ":", "0", "0">>, <<"?", "?">>, <<"/", "b", "i", "n", "/", "c", "l", "a", "u", "d", "e">>, <<"-", "r">> >>,
      << <<"1", "4">>, <<"0", "0", ":", "0", "1">>, <<"t", "t", "y", "s", "0", "0", "2">>, <<"g", "r", "e", "p">>, <<"c", "l", "a", "u", "d", "e">> >>,
      << <<"1", "5">>, <<"0", "0", ":", "0", "5">>, <<"t", "t", "y", "s", "0", "0", "3">>, <<"n", "o", "d", "e">>, <<"s", "r", "v">> >>,
      << <<"x", "1">>, <<"0", "0", ":", "0", "5">>, <<"t", "t", "y", "s", "0", "0", "3">>, <<"c", "l", "a", "u", "d", "e">> >>,
      << <<"1", "7">>, <<"c", "l", "a", "u", "d", "e">>, <<"t", "t", "y", "s", "0", "0", "4">> >>,
      << <<"1", "8">>, <<"0", "3", ":", "0", "0">>, <<"t", "t", "y", "s", "0", "0", "5">>, <<"c", "l", "a", "u", "d", "e">>, <<"r", "i", "p", "g", "r", "e", "p", ".", "m", "d">> >>,
      <<>> }

\* the text of a line: its words, gap blanks between them, lead blanks before
RECURSIVE Blanks(_)
Blanks(n) == IF n = 0 THEN <<>> ELSE <<" ">> \o Blanks(n - 1)

PsLineText(words, lead, gap) == Blanks(lead) \o Join(words, Blanks(gap))

PsArgs ==
    { [lines |-> ls, lead |-> lead, gap |-> gap,
       text |-> Join([k \in 1..Len(ls) |-> PsLineText(ls[k], lead, gap)], <<NL>>)] :
      ls \in SeqsUpTo(PsLines, MaxPsLines), lead \in {0, 1}, gap \in {1, 2} }

InitParsePS ==
    /\ callArg \in PsArgs
    /\ callRet = <<>>
    /\ callDone = FALSE
    /\ dsFile = NoFile /\ dsMtime = 0 /\ dsNow = 0 /\ dsState = "none"
    /\ fuEntries = <<>> /\ fuCwdMap = <<>> /\ fuLocks = <<>>
    /\ fuAlive = {} /\ fuResult = <<>> /\ fuDone = FALSE
    /\ clock = 0 /\ files = <<>> /\ index = <<>> /\ metadataCache = <<>>
    /\ passes = <<>> /\ timers = 0 /\ sessions = <<>> /\ firstRefresh = FALSE
    /\ quit = FALSE /\ crashed = FALSE /\ appends = 0 /\ indexWrites = 0
    /\ IdleRl /\ IdleUi

CallParsePS ==
    /\ ~callDone
    /\ callRet' = ParsePS(callArg.text)
    /\ callDone' = TRUE
    /\ UNCHANGED <<callArg, dsVars, fuVars, uiVars, mainVars, rlVars>>

NextParsePS == CallParsePS

SpecParsePS == InitParsePS /\ [][NextParsePS]_vars

\* the line, given by its words, is one the claim gives an entry to: not the
\* header, with the program name in one of its words, its command not the
\* search command grep, at least four fields and a numeric process id
psKept(words) ==
    /\ words # PsHeaderLine
    /\ \E k \in 1..Len(words) : Contains(words[k], claudeName)
    /\ Len(words) >= 4
    /\ words[4] # grepName
    /\ Atoi(words[1]).ok

psEntryOf(words) ==
    [PID |-> Atoi(words[1]).val, Etime |-> words[2], TTY |-> words[3],
     Command |-> Join(SubSeq(words, 4, Len(words)), <<" ">>)]

RECURSIVE psExpected(_)
psExpected(ls) ==
    IF Len(ls) = 0 THEN <<>>
    ELSE (IF psKept(Head(ls)) THEN << psEntryOf(Head(ls)) >> ELSE <<>>)
         \o psExpected(Tail(ls))

\* C16: ParsePS returns, in input order, exactly one entry for each line
\* that is not the header, contains the program name, is not itself a
\* search command matching on that name, has at least four fields and a
\* numeric process id; the other lines are skipped; the command is the
\* fields from the fourth on joined by single spaces.
C16_ParsePSEntries ==
    callDone => callRet = psExpected(callArg.lines)

----------------------------------------------------------------------------
(* SpecCleanTopic: metadata.go, CleanTopic on the characters of a prompt.  *)
(* The prompts hold no newline and no white space but the blank, and none  *)
(* begins with "Caveat:", "Implement the following plan:" or "The messages *)
(* below", the noise prefixes the model of noiseRegex leaves out.          *)
(***************************************************************************)

ideSelectionOpen == <<"<", "i", "d", "e", "_", "s", "e", "l", "e", "c", "t", "i", "o", "n", ">">>

ideSelectionClose == <<"<", "/", "i", "d", "e", "_", "s", "e", "l", "e", "c", "t", "i", "o", "n", ">">>

ideOpenedFileOpen == <<"<", "i", "d", "e", "_", "o", "p", "e", "n", "e", "d", "_", "f", "i", "l", "e", ">">>

ideOpenedFileClose == <<"<", "/", "i", "d", "e", "_", "o", "p", "e", "n", "e", "d", "_", "f", "i", "l", "e", ">">>

mayOrMayNot == <<"T", "h", "i", "s", " ", "m", "a", "y", " ", "o", "r", " ", "m", "a", "y", " ", "n", "o", "t">>

openedTheFile == <<"o", "p", "e", "n", "e", "d", " ", "t", "h", "e", " ", "f", "i", "l", "e", " ">>

inTheIDE == <<" ", "i", "n", " ", "t", "h", "e", " ", "I", "D", "E">>

ideSelectionPlaceholder == <<"(", "I", "D", "E", " ", "s", "e", "l", "e", "c", "t", "i", "o", "n", ")">>

ideContextPlaceholder == <<"(", "I", "D", "E", " ", "c", "o", "n", "t", "e", "x", "t", ")">>

openedPrefix == <<"(", "o", "p", "e", "n", "e", "d", " ">>

(* strings.Index(str, sub), counted from 1; 0 when there is none *)
Index(str, sub) ==
    LET at == { k \in 1..(Len(str) - Len(sub) + 1) : SubSeq(str, k, k + Len(sub) - 1) = sub }
    IN  IF at = {} THEN 0 ELSE CHOOSE k \in at : \A j \in at : k <= j

\* str from position k on
From(str, k) == SubSeq(str, k, Len(str))

(* filepath.Base *)
RECURSIVE FilepathBase(_)
FilepathBase(path) ==
    IF path = <<>> THEN <<".">>
    ELSE IF path[Len(path)] = "/"
         THEN IF Len(path) = 1 THEN <<"/">>
              ELSE FilepathBase(SubSeq(path, 1, Len(path) - 1))
         ELSE LET slashes == { k \in 1..Len(path) : path[k] = "/" }
              IN  IF slashes = {} THEN path
                  ELSE From(path, 1 + CHOOSE k \in slashes : \A j \in slashes : j <= k)

(* metadata.go: stripIDESelectionTag *)
stripIDESelectionTag(prompt) ==
    IF ~HasPrefix(prompt, ideSelectionOpen) THEN [result |-> prompt, handled |-> FALSE]
    ELSE LET idx == Index(prompt, ideSelectionClose)
             afterTag == TrimSpace(From(prompt, idx + Len(ideSelectionClose)))
             inner0 == SubSeq(prompt, Len(ideSelectionOpen) + 1, idx - 1)
             cutIdx == Index(inner0, mayOrMayNot)
             inner1 == IF cutIdx # 0 THEN SubSeq(inner0, 1, cutIdx - 1) ELSE inner0
             colonIdx == Index(inner1, <<":", " ">>)
             inner2 == IF colonIdx # 0 THEN From(inner1, colonIdx + 2) ELSE inner1
             inner == TrimSpace(inner2)
         IN  IF idx = 0 THEN [result |-> prompt, handled |-> TRUE]
             ELSE IF afterTag # <<>> THEN [result |-> afterTag, handled |-> TRUE]
             ELSE IF inner # <<>> THEN [result |-> inner, handled |-> TRUE]
             ELSE [result |-> ideSelectionPlaceholder, handled |-> TRUE]

(* metadata.go: stripIDEOpenedFileTag *)
stripIDEOpenedFileTag(prompt) ==
    IF ~HasPrefix(prompt, ideOpenedFileOpen) THEN [result |-> <<>>, handled |-> FALSE]
    ELSE LET idx == Index(prompt, openedTheFile)
             rest == From(prompt, idx + Len(openedTheFile))
             endIdx == Index(rest, inTheIDE)
             filePath == SubSeq(rest, 1, endIdx - 1)
         IN  IF idx # 0 /\ endIdx # 0
             THEN [result |-> openedPrefix \o FilepathBase(filePath) \o <<")">>,
                   handled |-> TRUE]
             ELSE [result |-> ideContextPlaceholder, handled |-> TRUE]

(* xmlTagRegex.ReplaceAllString(str, ""), the regular expression <[^>]+> *)
RECURSIVE StripXMLTags(_)
StripXMLTags(str) ==
    IF str = <<>> THEN <<>>
    ELSE LET close == Index(Tail(str), <<">">>)
         IN  IF str[1] = "<" /\ close >= 2
             THEN StripXMLTags(From(str, close + 2))
             ELSE << str[1] >> \o StripXMLTags(Tail(str))

(* noiseRegex.ReplaceAllString(str, ""), for a text of one line: the       *)
(* alternatives "# ", "DO NOT .*$", "IMPORTANT:.*$" and "No prompt$"       *)
StripNoise(str) ==
    IF HasPrefix(str, <<"#", " ">>) THEN From(str, 3)
    ELSE IF HasPrefix(str, <<"D", "O", " ", "N", "O", "T", " ">>) THEN <<>>
    ELSE IF HasPrefix(str, <<"I", "M", "P", "O", "R", "T", "A", "N", "T", ":">>) THEN <<>>
    ELSE IF str = <<"N", "o", " ", "p", "r", "o", "m", "p", "t">> THEN <<>>
    ELSE str

(* metadata.go: stripXMLAndNoise *)
stripXMLAndNoise(prompt) ==
    Join(Fields(StripNoise(StripXMLTags(prompt))), <<" ">>)

\* a mutant of CleanTopicText: the opened-file result is cleaned like any
\* other prompt instead of being returned at once
CleanTopicText_noEarlyReturn(prompt) ==
    LET sel == stripIDESelectionTag(prompt)
        prompt1 == IF sel.handled THEN sel.result ELSE prompt
        opened == stripIDEOpenedFileTag(prompt1)
    IN  IF prompt = <<>> THEN <<>>
        ELSE IF sel.handled /\ prompt1 = <<>> THEN <<>>
        ELSE IF opened.handled THEN stripXMLAndNoise(opened.result)
        ELSE stripXMLAndNoise(prompt1)

(* metadata.go: CleanTopic, on the characters of the prompt *)
CleanTopicText(prompt) ==
    LET sel == stripIDESelectionTag(prompt)
        prompt1 == IF sel.handled THEN sel.result ELSE prompt
        opened == stripIDEOpenedFileTag(prompt1)
    IN  IF prompt = <<>> THEN <<>>
        ELSE IF sel.handled /\ prompt1 = <<>> THEN <<>>
        ELSE IF opened.handled THEN opened.result
        ELSE stripXMLAndNoise(prompt1)

\* the inner texts of the selection wrappers; usable tells whether text is
\* left after the cut at the relevance marker, the drop through the first
\* ": " and the trim
TopicInners ==
    { [text |-> <<>>, usable |-> FALSE],
      [text |-> <<" ">>, usable |-> FALSE],
      [text |-> <<"f", ":", " ">>, usable |-> FALSE],
      [text |-> <<" ">> \o mayOrMayNot \o <<" ", "b", "e">>, usable |-> FALSE],
      [text |-> <<"f", ":", " ">> \o mayOrMayNot, usable |-> FALSE],
      [text |-> <<"f", ":", " ", "x">>, usable |-> TRUE],
      [text |-> <<"x">>, usable |-> TRUE] }

TopicAfters == { <<>>, <<" ">>, <<" ", "f", "i", "x">>, <<"#", " ", "f", "i", "x">> }

\* the paths of the opened-file wrappers with their base names
TopicPaths ==
    { [path |-> <<"/", "a", "/", "m", ".", "g", "o">>, base |-> <<"m", ".", "g", "o">>],
      [path |-> <<"m", ".", "g", "o">>, base |-> <<"m", ".", "g", "o">>],
      [path |-> <<"/", "a", "/">>, base |-> <<"a">>],
      [path |-> <<"/", "a", "/", "<", "b", ">", ".", "x">>, base |-> <<"<", "b", ">", ".", "x">>],
      [path |-> <<>>, base |-> <<".">>] }

TopicLeads == { <<"U", "s", "e", "r", " ">>, <<>>, <<"#", " ">> }

TopicArgs ==
    { [kind |-> "selection", closed |-> TRUE, usable |-> i.usable, after |-> a,
       text |-> ideSelectionOpen \o i.text \o ideSelectionClose \o a] :
      i \in TopicInners, a \in TopicAfters }
    \cup { [kind |-> "selection", closed |-> FALSE, usable |-> i.usable, after |-> <<>>,
            text |-> ideSelectionOpen \o i.text] : i \in TopicInners }
    \cup { [kind |-> "opened", both |-> TRUE, base |-> f.base,
            text |-> ideOpenedFileOpen \o lead \o openedTheFile \o f.path \o inTheIDE
                     \o tail \o ideOpenedFileClose] :
           f \in TopicPaths, lead \in TopicLeads, tail \in { <<>>, <<" ", "f", "i", "x">> } }
    \cup { [kind |-> "opened", both |-> FALSE, base |-> <<>>,
            text |-> ideOpenedFileOpen \o body \o ideOpenedFileClose] :
           body \in { <<>>, <<"x">>, <<"#", " ", "f", "i", "x">>,
                      openedTheFile \o <<"/", "a", "/", "m", ".", "g", "o">>,
                      <<"x">> \o inTheIDE,
                      inTheIDE \o openedTheFile \o <<"/", "a", "/", "m", ".", "g", "o">> } }
    \cup { [kind |-> "plain", text |-> t] :
           t \in { <<>>, <<"x">>, <<"#", " ", "f", "i", "x">>, <<"<", "b", ">", "x", "<", "/", "b", ">", " ", "y">>, <<"N", "o", " ", "p", "r", "o", "m", "p", "t">>, <<"<", ">", "x">> } }

InitCleanTopic ==
    /\ callArg \in TopicArgs
    /\ callRet = <<>>
    /\ callDone = FALSE
    /\ dsFile = NoFile /\ dsMtime = 0 /\ dsNow = 0 /\ dsState = "none"
    /\ fuEntries = <<>> /\ fuCwdMap = <<>> /\ fuLocks = <<>>
    /\ fuAlive = {} /\ fuResult = <<>> /\ fuDone = FALSE
    /\ clock = 0 /\ files = <<>> /\ index = <<>> /\ metadataCache = <<>>
    /\ passes = <<>> /\ timers = 0 /\ sessions = <<>> /\ firstRefresh = FALSE
    /\ quit = FALSE /\ crashed = FALSE /\ appends = 0 /\ indexWrites = 0
    /\ IdleRl /\ IdleUi

CallCleanTopic ==
    /\ ~callDone
    /\ callRet' = CleanTopicText(callArg.text)
    /\ callDone' = TRUE
    /\ UNCHANGED <<callArg, dsVars, fuVars, uiVars, mainVars, rlVars>>

NextCleanTopic == CallCleanTopic

SpecCleanTopic == InitCleanTopic /\ [][NextCleanTopic]_vars

\* C17: CleanTopic gives "(IDE selection)" for a selection wrapper with no
\* text after the closing tag and no usable inner text, "(opened <basename>)"
\* for an opened-file wrapper with "opened the file " and a following " in
\* the IDE", "(IDE context)" for an opened-file wrapper lacking a marker;
\* the text of an opened-file wrapper is never stripped of tags or noise.
C17_IDEPlaceholders ==
    callDone =>
        /\ (callArg.kind = "selection" /\ callArg.closed
              /\ TrimSpace(callArg.after) = <<>> /\ ~callArg.usable)
           => callRet = ideSelectionPlaceholder
        /\ (callArg.kind = "opened" /\ callArg.both)
           => callRet = openedPrefix \o callArg.base \o <<")">>
        /\ (callArg.kind = "opened" /\ ~callArg.both)
           => callRet = ideContextPlaceholder

\* the base name of an opened file keeps its angle brackets: the result was
\* returned without tag stripping
C17_Witness ==
    /\ callDone
    /\ callArg.kind = "opened"
    /\ callArg.both
    /\ callArg.base = <<"<", "b", ">", ".", "x">>
    /\ callRet = openedPrefix \o <<"<", "b", ">", ".", "x">> \o <<")">>

----------------------------------------------------------------------------
(* SpecTUI: tui.go, model.Update under the messages of the Bubbletea loop. *)
(* The refresh result is any list of MaxRows sessions at most; the filter  *)
(* input takes MaxFilterLen characters at most (CharLimit in the source).  *)
(***************************************************************************)

MaxRows == 2

MaxFilterLen == 1

ModeNormal == "normal"

ModeFilter == "filter"

ModeDetail == "detail"

SortByState == 0

SortByDuration == 1

SortByProject == 2

FilterAll == 0

FilterActive == 1

FilterWaiting == 2

FilterIdle == 3

minTerminalWidth == 60

uiVerticalOverhead == 6

(* types.go: State.Priority, the position of the state in the iota block *)
Priority(state) ==
    CASE state = StateActive -> 0
      [] state = StateWaiting -> 1
      [] state = StateIdle -> 2

(* strings.ToLower, on the letters of the model *)
ToLowerChar(c) ==
    CASE c = "A" -> "a"
      [] c = "S" -> "s"
      [] OTHER -> c

ToLower(str) == [k \in 1..Len(str) |-> ToLowerChar(str[k])]

\* the byte order of the characters of the model
CharRank(c) ==
    CASE c = "/" -> 47
      [] c = "A" -> 65
      [] c = "S" -> 83
      [] c = "a" -> 97
      [] c = "f" -> 102
      [] c = "j" -> 106
      [] c = "k" -> 107
      [] c = "q" -> 113
      [] c = "s" -> 115

(* the < of Go strings *)
RECURSIVE StringLess(_, _)
StringLess(a, b) ==
    IF b = <<>> THEN FALSE
    ELSE IF a = <<>> THEN TRUE
    ELSE IF a[1] = b[1] THEN StringLess(Tail(a), Tail(b))
    ELSE CharRank(a[1]) < CharRank(b[1])

(* tui.go: the less function of filteredSessions *)
SessionLess(field, a, b) ==
    CASE field = SortByDuration -> a.Duration > b.Duration
      [] field = SortByProject -> StringLess(a.Project, b.Project)
      [] OTHER -> Priority(a.State) < Priority(b.State)

\* a mutant of InsertStable: the element goes before its equals
InsertStable_beforeEquals(field, sorted, x) ==
    LET before == { k \in 1..Len(sorted) : ~SessionLess(field, sorted[k], x) }
        at == IF before = {} THEN Len(sorted) + 1
              ELSE CHOOSE k \in before : \A j \in before : k <= j
    IN  SubSeq(sorted, 1, at - 1) \o <<x>> \o SubSeq(sorted, at, Len(sorted))

\* x inserted into a sorted list before the first element it is less than
InsertStable(field, sorted, x) ==
    LET after == { k \in 1..Len(sorted) : SessionLess(field, x, sorted[k]) }
        at == IF after = {} THEN Len(sorted) + 1
              ELSE CHOOSE k \in after : \A j \in after : k <= j
    IN  SubSeq(sorted, 1, at - 1) \o <<x>> \o SubSeq(sorted, at, Len(sorted))

(* sort.SliceStable *)
RECURSIVE SliceStable(_, _)
SliceStable(list, field) ==
    IF list = <<>> THEN <<>>
    ELSE InsertStable(field, SliceStable(SubSeq(list, 1, Len(list) - 1), field),
                      list[Len(list)])

(* tui.go: the loop body of filteredSessions, is the session kept *)
PassesFilters(m, s) ==
    /\ m.stateFilter = FilterActive => s.State = StateActive
    /\ m.stateFilter = FilterWaiting => s.State = StateWaiting
    /\ m.stateFilter = FilterIdle => s.State = StateIdle
    /\ m.filterText # <<>> =>
          LET lowerFilter == ToLower(m.filterText)
          IN  \/ Contains(ToLower(s.Project), lowerFilter)
              \/ Contains(ToLower(s.Topic), lowerFilter)
              \/ Contains(ToLower(s.Branch), lowerFilter)

(* tui.go: model.filteredSessions, a new list *)
filteredSessions(m) ==
    SliceStable(SelectSeq(m.sessions, LAMBDA s : PassesFilters(m, s)), m.sortField)

(* tui.go: renderNormal, the rows written *)
renderedRows(m) ==
    LET width == IF m.windowWidth = 0 THEN 80 ELSE m.windowWidth
        height == IF m.windowHeight = 0 THEN 24 ELSE m.windowHeight
        maxRows == IF height - uiVerticalOverhead < 1 THEN 1
                   ELSE height - uiVerticalOverhead
        filtered == filteredSessions(m)
    IN  IF width < minTerminalWidth THEN <<>>
        ELSE SubSeq(filtered, 1, IF Len(filtered) < maxRows THEN Len(filtered) ELSE maxRows)

\* the keys pressed
Keys == {"ctrl+c", "q", "j", "k", "down", "up", "enter", "/", "f", "s", "esc"}

\* the keys that are one character of text
Runes == {"q", "j", "k", "/", "f", "s"}

(* textinput.Model.Update for a key: a character goes to the end of the    *)
(* value unless the limit is reached, the other keys leave the value       *)
textinputUpdate(value, key) ==
    IF key \in Runes /\ Len(value) < MaxFilterLen THEN Append(value, key) ELSE value

\* a mutant of updateNormal: the key s also sorts the held list
updateNormal_sortsHeld(m, key) ==
    LET filtered == filteredSessions(m)
    IN  CASE key = "q" -> [m |-> m, cmd |-> "quit"]
          [] key \in {"j", "down"} ->
                [m |-> IF m.cursor < Len(filtered) - 1
                       THEN [m EXCEPT !.cursor = m.cursor + 1] ELSE m,
                 cmd |-> "none"]
          [] key \in {"k", "up"} ->
                [m |-> IF m.cursor > 0 THEN [m EXCEPT !.cursor = m.cursor - 1] ELSE m,
                 cmd |-> "none"]
          [] key = "enter" ->
                [m |-> IF Len(filtered) > 0 THEN [m EXCEPT !.mode = ModeDetail] ELSE m,
                 cmd |-> "none"]
          [] key = "/" ->
                [m |-> [m EXCEPT !.mode = ModeFilter, !.filterInput = m.filterText],
                 cmd |-> "focus"]
          [] key = "f" ->
                [m |-> [m EXCEPT !.stateFilter = (m.stateFilter + 1) % 4, !.cursor = 0],
                 cmd |-> "none"]
          [] key = "s" ->
                [m |-> [m EXCEPT !.sortField = (m.sortField + 1) % 3,
                                 !.sessions = SliceStable(m.sessions, (m.sortField + 1) % 3)],
                 cmd |-> "none"]
          [] OTHER -> [m |-> m, cmd |-> "none"]

(* tui.go: model.updateNormal *)
updateNormal(m, key) ==
    LET filtered == filteredSessions(m)
    IN  CASE key = "q" -> [m |-> m, cmd |-> "quit"]
          [] key \in {"j", "down"} ->
                [m |-> IF m.cursor < Len(filtered) - 1
                       THEN [m EXCEPT !.cursor = m.cursor + 1] ELSE m,
                 cmd |-> "none"]
          [] key \in {"k", "up"} ->
                [m |-> IF m.cursor > 0 THEN [m EXCEPT !.cursor = m.cursor - 1] ELSE m,
                 cmd |-> "none"]
          [] key = "enter" ->
                [m |-> IF Len(filtered) > 0 THEN [m EXCEPT !.mode = ModeDetail] ELSE m,
                 cmd |-> "none"]
          [] key = "/" ->
                [m |-> [m EXCEPT !.mode = ModeFilter, !.filterInput = m.filterText],
                 cmd |-> "focus"]
          [] key = "f" ->
                [m |-> [m EXCEPT !.stateFilter = (m.stateFilter + 1) % 4, !.cursor = 0],
                 cmd |-> "none"]
          [] key = "s" ->
                [m |-> [m EXCEPT !.sortField = (m.sortField + 1) % 3], cmd |-> "none"]
          [] OTHER -> [m |-> m, cmd |-> "none"]

\* a mutant of updateFilter: esc opens the detail view
updateFilter_escToDetail(m, key) ==
    CASE key = "enter" ->
            [m |-> [m EXCEPT !.filterText = m.filterInput, !.mode = ModeNormal,
                             !.cursor = 0],
             cmd |-> "none"]
      [] key = "esc" -> [m |-> [m EXCEPT !.mode = ModeDetail], cmd |-> "none"]
      [] OTHER ->
            [m |-> [m EXCEPT !.filterInput = textinputUpdate(m.filterInput, key)],
             cmd |-> "none"]

(* tui.go: model.updateFilter *)
updateFilter(m, key) ==
    CASE key = "enter" ->
            [m |-> [m EXCEPT !.filterText = m.filterInput, !.mode = ModeNormal,
                             !.cursor = 0],
             cmd |-> "none"]
      [] key = "esc" -> [m |-> [m EXCEPT !.mode = ModeNormal], cmd |-> "none"]
      [] OTHER ->
            [m |-> [m EXCEPT !.filterInput = textinputUpdate(m.filterInput, key)],
             cmd |-> "none"]

(* tui.go: model.updateDetail *)
updateDetail(m, key) ==
    IF key \in {"esc", "q"}
    THEN [m |-> [m EXCEPT !.mode = ModeNormal], cmd |-> "none"]
    ELSE [m |-> m, cmd |-> "none"]

(* tui.go: model.Update; a message is a record with its type *)
Update(m, msg) ==
    CASE msg.type = "WindowSizeMsg" ->
            [m |-> [m EXCEPT !.windowWidth = msg.Width, !.windowHeight = msg.Height],
             cmd |-> "none"]
      [] msg.type = "sessionsRefreshedMsg" ->
            [m |-> [m EXCEPT !.sessions = msg.sessions, !.firstRefresh = TRUE],
             cmd |-> "tick"]
      [] msg.type = "tickMsg" -> [m |-> m, cmd |-> "refresh"]
      [] msg.type = "KeyMsg" ->
            IF msg.key = "ctrl+c" THEN [m |-> m, cmd |-> "quit"]
            ELSE CASE m.mode = ModeNormal -> updateNormal(m, msg.key)
                   [] m.mode = ModeFilter -> updateFilter(m, msg.key)
                   [] m.mode = ModeDetail -> updateDetail(m, msg.key)

\* the model value held by the program
TheModel ==
    [sessions |-> sessions, cursor |-> cursor, mode |-> mode,
     filterInput |-> filterInput, filterText |-> filterText,
     stateFilter |-> stateFilter, sortField |-> sortField,
     windowWidth |-> windowWidth, windowHeight |-> windowHeight,
     firstRefresh |-> firstRefresh]

\* the sessions a refresh can report
TuiSessions ==
    { [PID |-> 1, State |-> StateWaiting, Project |-> <<"A", "s">>, Topic |-> <<>>,
       Branch |-> <<"f">>, Duration |-> 5],
      [PID |-> 2, State |-> StateActive, Project |-> <<"q">>, Topic |-> <<"a">>,
       Branch |-> <<>>, Duration |-> 9],
      [PID |-> 3, State |-> StateIdle, Project |-> <<"j">>, Topic |-> <<"S">>,
       Branch |-> <<>>, Duration |-> 7],
      [PID |-> 4, State |-> StateActive, Project |-> <<"A", "s">>, Topic |-> <<"k">>,
       Branch |-> <<"/">>, Duration |-> 5] }

\* the lists a refresh can report: no session twice
TuiLists ==
    { l \in UNION { [1..n -> TuiSessions] : n \in 0..MaxRows } :
        \A i, j \in 1..Len(l) : i # j => l[i] # l[j] }

\* the window sizes reported: one row fits, or the window is too narrow
WindowSizes == { <<80, 7>>, <<50, 10>> }

(* newModel and model.Init: a refresh is running and a timer is set *)
InitTUI ==
    /\ sessions = <<>> /\ cursor = 0 /\ mode = ModeNormal
    /\ filterInput = <<>> /\ filterText = <<>>
    /\ stateFilter = FilterAll /\ sortField = SortByState
    /\ windowWidth = 0 /\ windowHeight = 0
    /\ firstRefresh = FALSE /\ quit = FALSE /\ crashed = FALSE
    /\ refreshing = 1 /\ timers = 1
    /\ passes = <<>>
    /\ dsFile = NoFile /\ dsMtime = 0 /\ dsNow = 0 /\ dsState = "none"
    /\ fuEntries = <<>> /\ fuCwdMap = <<>> /\ fuLocks = <<>>
    /\ fuAlive = {} /\ fuResult = <<>> /\ fuDone = FALSE
    /\ clock = 0 /\ files = <<>> /\ index = <<>> /\ metadataCache = <<>>
    /\ appends = 0 /\ indexWrites = 0
    /\ IdleRl /\ IdleCall

\* the loop hands msg to Update, keeps the model returned and runs the command
Handle(msg) ==
    LET r == Update(TheModel, msg)
    IN  /\ sessions' = r.m.sessions
        /\ cursor' = r.m.cursor
        /\ mode' = r.m.mode
        /\ filterInput' = r.m.filterInput
        /\ filterText' = r.m.filterText
        /\ stateFilter' = r.m.stateFilter
        /\ sortField' = r.m.sortField
        /\ windowWidth' = r.m.windowWidth
        /\ windowHeight' = r.m.windowHeight
        /\ firstRefresh' = r.m.firstRefresh
        /\ quit' = (r.cmd = "quit")
        /\ timers' = IF msg.type = "tickMsg" THEN timers - 1
                     ELSE IF r.cmd = "tick" THEN timers + 1 ELSE timers
        /\ refreshing' = IF msg.type = "sessionsRefreshedMsg" THEN refreshing - 1
                         ELSE IF r.cmd = "refresh" THEN refreshing + 1 ELSE refreshing
        /\ UNCHANGED <<dsVars, fuVars, rlVars, callVars, envVars, metadataCache,
                       passes, crashed>>

KeyMsg(key) ==
    /\ ~quit
    /\ Handle([type |-> "KeyMsg", key |-> key])

WindowSizeMsg(size) ==
    /\ ~quit
    /\ Handle([type |-> "WindowSizeMsg", Width |-> size[1], Height |-> size[2]])

tickMsg ==
    /\ ~quit
    /\ timers > 0
    /\ Handle([type |-> "tickMsg"])

sessionsRefreshedMsg(list) ==
    /\ ~quit
    /\ refreshing > 0
    /\ Handle([type |-> "sessionsRefreshedMsg", sessions |-> list])

PressKey == \E key \in Keys : KeyMsg(key)

Resize == \E size \in WindowSizes : WindowSizeMsg(size)

RefreshDelivered == \E list \in TuiLists : sessionsRefreshedMsg(list)

NextTUI == PressKey \/ Resize \/ tickMsg \/ RefreshDelivered

SpecTUI == InitTUI /\ [][NextTUI]_vars

\* the position of a session in the held list
c18Position(s) == CHOOSE k \in 1..Len(sessions) : sessions[k] = s

c18Ordered(rows) ==
    \A i, j \in 1..Len(rows) :
        i < j => /\ Priority(rows[i].State) <= Priority(rows[j].State)
                 /\ rows[i].State = rows[j].State
                    => c18Position(rows[i]) < c18Position(rows[j])

\* C18: with the sort by state the list displayed is ordered by priority,
\* active before waiting before idle, and rows of equal state keep the order
\* of the refresh result, after any refreshes and key presses.
C18_SortedByState ==
    /\ Priority(StateActive) < Priority(StateWaiting)
    /\ Priority(StateWaiting) < Priority(StateIdle)
    /\ sortField = SortByState
       => /\ c18Ordered(filteredSessions(TheModel))
          /\ c18Ordered(renderedRows(TheModel))

\* two rows are displayed in the other order than the refresh reported them,
\* after the keys f and j
C18_Witness ==
    /\ sortField = SortByState
    /\ Len(sessions) = 2
    /\ renderedRows(TheModel) = <<sessions[2], sessions[1]>>
    /\ cursor = 1
    /\ stateFilter = FilterAll
    /\ filterText # <<>>

c19Documented(key) ==
    /\ key = "ctrl+c" => quit'
    /\ (mode = ModeNormal /\ key = "q") => quit'
    /\ (mode' = ModeFilter /\ mode # ModeFilter) => (mode = ModeNormal /\ key = "/")
    /\ (mode = ModeFilter /\ key \in {"esc", "enter"}) => mode' = ModeNormal
    /\ (mode' = ModeDetail /\ mode # ModeDetail) => (mode = ModeNormal /\ key = "enter")
    /\ (mode = ModeDetail /\ key = "esc") => mode' = ModeNormal
    /\ ~(mode = ModeFilter /\ mode' = ModeDetail)
    /\ ~(mode = ModeDetail /\ mode' = ModeFilter)

C20_HeldListFrame ==
    [][/\ sessions' # sessions => RefreshDelivered
       /\ \A list \in TuiLists : sessionsRefreshedMsg(list) => sessions' = list
       /\ (PressKey \/ Resize \/ tickMsg) => sessions' = sessions]_vars

\* the held list is not in the order displayed although the sort field, the
\* filter, the cursor and the window size have changed
C20_Witness ==
    /\ Len(sessions) = 2
    /\ filteredSessions(TheModel) = <<sessions[2], sessions[1]>>
    /\ sortField = SortByProject
    /\ cursor = 1
    /\ filterText # <<>>
    /\ windowWidth # 0

----------------------------------------------------------------------------
(* SpecEnrichOrder: metadata.go, EnrichSessions over a list of sessions in *)
(* every order.  The indexes hold no two entries of one fileMtime, so that *)
(* the first entry after the sort is the same in every call of the pass.   *)
(***************************************************************************)

MaxSessions == 3

(* metadata.go: EnrichSessions from session i on, the list and the cache   *)
(* after the loop                                                          *)
RECURSIVE EnrichSessionsFrom(_, _, _, _, _, _)
EnrichSessionsFrom(list, i, now0, fs, idx, cache) ==
    IF i > Len(list) THEN [list |-> list, cache |-> cache]
    ELSE LET r == CHOOSE x \in enrichSession(list[i], list[i].CWD, now0, fs, idx, cache) : TRUE
         IN  EnrichSessionsFrom([list EXCEPT ![i] = r.session], i + 1, now0, fs, idx,
                                IF r.write.has THEN Put(cache, r.write.key, r.write.val)
                                ELSE cache)

(* metadata.go: EnrichSessions *)
EnrichSessions(list, now0, fs, idx, cache) ==
    EnrichSessionsFrom(list, 1, now0, fs, idx, cache).list

OrderIndexes ==
    { NoIndex,
      [readable |-> TRUE, entries |-> <<>>],
      [readable |-> TRUE, entries |-> << IndexEntry(FileNames[1], 0) >>],
      [readable |-> TRUE, entries |-> << IndexEntry("", 0) >>],
      [readable |-> TRUE, entries |-> << IndexEntry(GoneName, 0),
                                         IndexEntry(FileNames[1], 1) >>],
      [readable |-> TRUE, entries |-> << IndexEntry(GoneName, 1),
                                         IndexEntry(FileNames[1], 0) >>] }

\* the lists of one pass: session k has process id k
OrderLists ==
    UNION { { [k \in 1..n |-> NewSession([PID |-> k, CWD |-> cwds[k], Source |-> "CLI"])] :
              cwds \in [1..n -> EnrichCwds] } : n \in 2..MaxSessions }

\* the orders of 1..n
OrdersOf(n) ==
    { f \in [1..n -> 1..n] : \A i, j \in 1..n : i # j => f[i] # f[j] }

InitEnrichOrder ==
    /\ clock \in 0..MaxTick
    /\ files \in EnrichFiles
    /\ index \in OrderIndexes
    /\ metadataCache \in EnrichCaches
    /\ \E base \in OrderLists :
          \E order \in OrdersOf(Len(base)) :
             /\ passes = [p \in Slots |->
                            IF p = 1
                            THEN [phase |-> "enrich",
                                  list |-> [k \in 1..Len(base) |-> base[order[k]]],
                                  i |-> 1, now |-> TimeAt(clock), pend |-> NoWrite,
                                  hit |-> FALSE]
                            ELSE IdlePass]
             /\ callArg = [base |-> base, cache |-> metadataCache]
    /\ callRet = <<>>
    /\ callDone = FALSE
    /\ timers = 0
    /\ sessions = <<>>
    /\ firstRefresh = FALSE
    /\ quit = FALSE
    /\ crashed = FALSE
    /\ appends = 0
    /\ indexWrites = 0
    /\ dsFile = NoFile /\ dsMtime = 0 /\ dsNow = 0 /\ dsState = "none"
    /\ fuEntries = <<>> /\ fuCwdMap = <<>> /\ fuLocks = <<>>
    /\ fuAlive = {} /\ fuResult = <<>> /\ fuDone = FALSE
    /\ IdleRl /\ IdleUi

SpecEnrichOrder == InitEnrichOrder /\ [][NextEnrich]_vars

\* the sessions of the pass enriched in the order of their process ids,
\* from the cache the pass found
c21InOrder ==
    EnrichSessions(callArg.base, passes[1].now, files, index, callArg.cache)

\* C21: enriching the sessions of a pass in any order gives each session
\* the topic, branch, message count and state it gets in the order of the
\* list: no enrichment, its cache write included, changes another's result.
C21_OrderIndependent ==
    passes[1].phase = "done"
    => \A k \in 1..Len(passes[1].list) :
          LET s == passes[1].list[k]
              ref == c21InOrder[s.PID]
          IN  /\ s.Topic = ref.Topic
              /\ s.Branch = ref.Branch
              /\ s.Messages = ref.Messages
              /\ s.State = ref.State

\* two sessions of one directory were enriched in the reverse order, the
\* first of them stored the cache entry the other one then hit
C21_Witness ==
    /\ passes[1].phase = "done"
    /\ callArg.cache = <<>>
    /\ metadataCache # <<>>
    /\ passes[1].hit
    /\ passes[1].list[1].PID > passes[1].list[2].PID
    /\ passes[1].list[1].CWD = PathA
    /\ passes[1].list[2].CWD = PathA
    /\ passes[1].list[2].Branch = "main"

----------------------------------------------------------------------------
(* SpecFuse: the claims about the order of discovery and the seen-set *)

fuIsIDE(i) == fuResult[i].Source # "CLI"

\* C22: in every pass the IDE discovery comes before the CLI discovery: no
\* CLI session has the working directory of an IDE session (the seen-set
\* held every IDE directory before the first CLI candidate was examined),
\* and in the list returned every IDE session precedes every CLI session.
C22_IDEBeforeCLI ==
    fuDone =>
      \A i, j \in 1..Len(fuResult) :
        (fuIsIDE(i) /\ ~fuIsIDE(j)) =>
            /\ i < j
            /\ fuResult[i].CWD # fuResult[j].CWD

\* the list holds an IDE session and then the CLI session of a terminal
\* process
C22_Witness ==
    /\ fuDone
    /\ Len(fuResult) = 2
    /\ fuIsIDE(1)
    /\ ~fuIsIDE(2)
    /\ fuTerminalProcessIn(fuResult[2].CWD)

----------------------------------------------------------------------------
(* SpecFuseCLI: the fusion on process tables of MaxCandidates entries at   *)
(* most, with one lock file at most                                        *)

MaxCandidates == 3

CLILockSeqs ==
    { <<>> }
    \cup { << [readable |-> TRUE, PID |-> 7, WorkspaceFolders |-> w, IDEName |-> "Cursor"] >> :
           w \in {<<PathA>>, <<PathC, PathA>>} }

InitFuseCLI ==
    /\ \E procs \in UNION { [1..n -> FuseProcVals] : n \in 0..MaxCandidates } :
          /\ fuEntries = FuseEntriesOf(procs)
          /\ fuCwdMap = FuseCwdMapOf(procs)
    /\ fuLocks \in CLILockSeqs
    /\ fuAlive \in {{}, {7}}
    /\ fuResult = <<>>
    /\ fuDone = FALSE
    /\ dsFile = NoFile /\ dsMtime = 0 /\ dsNow = 0 /\ dsState = "none"
    /\ clock = 0 /\ files = <<>> /\ index = <<>> /\ metadataCache = <<>>
    /\ passes = <<>> /\ timers = 0 /\ sessions = <<>> /\ firstRefresh = FALSE
    /\ quit = FALSE /\ crashed = FALSE /\ appends = 0 /\ indexWrites = 0
    /\ IdleRl /\ IdleCall /\ IdleUi

SpecFuseCLI == InitFuseCLI /\ [][NextFuse]_vars

\* entry i has a real terminal, a command whose first word has the base
\* name claude and a resolved, non-empty working directory
fuCLICandidate(i) ==
    /\ fuEntries[i].TTY # "??"
    /\ Len(fuEntries[i].Command) > 0
    /\ Base(fuEntries[i].Command[1]) = "claude"
    /\ fuCwdMap[fuEntries[i].PID].ok
    /\ fuCwdMap[fuEntries[i].PID].path # <<>>

fuCandidatesIn(d) ==
    { i \in 1..Len(fuEntries) : fuCLICandidate(i) /\ fuCwdMap[fuEntries[i].PID].path = d }

fuCLISessionsIn(d) ==
    { k \in 1..Len(fuResult) : ~fuIsIDE(k) /\ fuResult[k].CWD = d }

fuIDEClaimed(d) == \E k \in 1..Len(fuResult) : fuIsIDE(k) /\ fuResult[k].CWD = d

fuFirstOf(S) == CHOOSE i \in S : \A j \in S : i <= j

\* every CLI session is the session of a candidate entry
fuCLIOnlyFromCandidates ==
    \A k \in 1..Len(fuResult) :
        ~fuIsIDE(k) =>
            \E i \in 1..Len(fuEntries) :
                /\ fuCLICandidate(i)
                /\ fuEntries[i].PID = fuResult[k].PID
                /\ fuCwdMap[fuEntries[i].PID].path = fuResult[k].CWD

fuDirs == {PathA, PathAB, PathC}

(* C23 as claimed: when several terminal-attached claude processes resolve *)
(* to one working directory, exactly one CLI session is created for it,   *)
(* for the first of them; a CLI session is created only for an entry with  *)
(* a real terminal, a command with base name claude and a resolved,        *)
(* non-empty working directory.                                            *)
C23_OneCLIPerDirectory ==
    fuDone =>
      /\ \A d \in fuDirs :
            Cardinality(fuCandidatesIn(d)) >= 2 =>
                /\ Cardinality(fuCLISessionsIn(d)) = 1
                /\ \A k \in fuCLISessionsIn(d) :
                      fuResult[k].PID = fuEntries[fuFirstOf(fuCandidatesIn(d))].PID
      /\ fuCLIOnlyFromCandidates

(* C23 amended: a directory that no IDE session has claimed gets exactly   *)
(* one CLI session when it has candidates, for the first of them; a        *)
(* directory claimed by an IDE session, or without candidates, gets none;  *)
(* a CLI session is created only for a candidate entry.                    *)
C23_OneCLIPerUnclaimedDirectory ==
    fuDone =>
      /\ \A d \in fuDirs :
            /\ (fuCandidatesIn(d) # {} /\ ~fuIDEClaimed(d)) =>
                  /\ Cardinality(fuCLISessionsIn(d)) = 1
                  /\ \A k \in fuCLISessionsIn(d) :
                        fuResult[k].PID = fuEntries[fuFirstOf(fuCandidatesIn(d))].PID
            /\ (fuCandidatesIn(d) = {} \/ fuIDEClaimed(d)) => fuCLISessionsIn(d) = {}
      /\ fuCLIOnlyFromCandidates

\* three terminal processes of one directory, the second of them the first
\* candidate, gave one CLI session
C23_Witness ==
    /\ fuDone
    /\ Len(fuEntries) = 3
    /\ fuCandidatesIn(PathA) = {2, 3}
    /\ fuCwdMap[1].path = PathA
    /\ fuEntries[1].TTY # "??"
    /\ Cardinality(fuCLISessionsIn(PathA)) = 1
    /\ \E k \in fuCLISessionsIn(PathA) : fuResult[k].PID = 2

----------------------------------------------------------------------------
(* SpecFuse: the claims about the sessions of the lock files *)

\* entry i has no terminal and a resolved directory below workspace w
fuIDECandidate(i, w) ==
    /\ fuEntries[i].TTY = "??"
    /\ fuCwdMap[fuEntries[i].PID].ok
    /\ HasPrefix(fuCwdMap[fuEntries[i].PID].path, w)

fuIDECandidatesOf(k) ==
    { i \in 1..Len(fuEntries) : fuIDECandidate(i, fuLocks[k].WorkspaceFolders[1]) }

\* the live lock files that have a candidate, in glob order
fuMatchedLocks ==
    SelectSeq([k \in 1..Len(fuLocks) |-> k],
              LAMBDA k : fuLockLive(k) /\ fuIDECandidatesOf(k) # {})

fuIDEIndexes == { k \in 1..Len(fuResult) : fuIsIDE(k) }

\* the n-th IDE session is the session of the n-th matched lock file: its
\* process is the first candidate, its directory the workspace folder
fuOneSessionPerLock ==
    /\ Cardinality(fuIDEIndexes) = Len(fuMatchedLocks)
    /\ \A n \in 1..Len(fuMatchedLocks) :
          LET k == fuMatchedLocks[n]
          IN  /\ fuIsIDE(n)
              /\ fuResult[n].PID = fuEntries[fuFirstOf(fuIDECandidatesOf(k))].PID
              /\ fuResult[n].CWD = fuLocks[k].WorkspaceFolders[1]

(* C24 as claimed: each live lock file yields at most one session, for the *)
(* first no-terminal process, in enumeration order, whose resolved         *)
(* directory has the lock file's first workspace folder as a prefix; the   *)
(* session's directory is the workspace folder; further matching processes *)
(* add no session, so one session is created per workspace.                *)
C24_OneSessionPerWorkspace ==
    fuDone =>
      /\ fuOneSessionPerLock
      /\ \A w \in fuDirs :
            Cardinality({ k \in fuIDEIndexes : fuResult[k].CWD = w }) <= 1

\* one lock file alone: at most one session, for its first candidate
fuPerLockFile == fuDone => fuOneSessionPerLock

(* C29 as claimed: no process id appears in more than one session of one   *)
(* discovery result: no process is the match of two lock files, and no     *)
(* process is both an IDE session and a CLI session.                       *)
C29_UniqueProcessID ==
    fuDone =>
      \A i, j \in 1..Len(fuResult) :
        i # j => fuResult[i].PID # fuResult[j].PID

\* no process is both an IDE session and a CLI session
fuNoProcessInBothKinds ==
    fuDone =>
      \A i, j \in 1..Len(fuResult) :
        (fuIsIDE(i) /\ ~fuIsIDE(j)) => fuResult[i].PID # fuResult[j].PID

----------------------------------------------------------------------------
(* SpecFindSession: metadata.go, the transcript lookup of enrichSession on *)
(* bounded indexes and directories                                         *)

MaxIndexEntries == 2

FindNames == <<"t1.jsonl", "t2.jsonl">>

\* a prompt of maxPromptLength + 1 characters
LongPrompt == [k \in 1..(maxPromptLength + 1) |-> IF k > maxPromptLength THEN "y" ELSE "x"]

FindEntries ==
    { [FullPath |-> path, FirstPrompt |-> prompt, MessageCount |-> 3,
       GitBranch |-> "main", FileMtime |-> t] :
      path \in {"", FindNames[1], FindNames[2]}, prompt \in {<<"h", "i">>, LongPrompt},
      t \in 0..1 }

FindIndexes ==
    { NoIndex }
    \cup { [readable |-> TRUE, entries |-> e] :
           e \in UNION { [1..n -> FindEntries] : n \in 0..MaxIndexEntries } }

FindFiles ==
    [ {FindNames[1], FindNames[2]} ->
        [exists : BOOLEAN, mtime : 0..1, first : {""}, lines : {<<LineU>>}] ]

InitFindSession ==
    /\ callArg \in [fs : FindFiles, idx : FindIndexes]
    /\ callRet = <<>>
    /\ callDone = FALSE
    /\ dsFile = NoFile /\ dsMtime = 0 /\ dsNow = 0 /\ dsState = "none"
    /\ fuEntries = <<>> /\ fuCwdMap = <<>> /\ fuLocks = <<>>
    /\ fuAlive = {} /\ fuResult = <<>> /\ fuDone = FALSE
    /\ clock = 0 /\ files = <<>> /\ index = <<>> /\ metadataCache = <<>>
    /\ passes = <<>> /\ timers = 0 /\ sessions = <<>> /\ firstRefresh = FALSE
    /\ quit = FALSE /\ crashed = FALSE /\ appends = 0 /\ indexWrites = 0
    /\ IdleRl /\ IdleUi

CallFindSession ==
    /\ ~callDone
    /\ callRet' \in findSession(callArg.fs, FindNames, callArg.idx)
    /\ callDone' = TRUE
    /\ UNCHANGED <<callArg, dsVars, fuVars, uiVars, mainVars, rlVars>>

NextFindSession == CallFindSession

SpecFindSession == InitFindSession /\ [][NextFindSession]_vars

\* the entries of greatest fileMtime
c25Newest ==
    { i \in 1..Len(callArg.idx.entries) :
        \A j \in 1..Len(callArg.idx.entries) :
            callArg.idx.entries[j].FileMtime <= callArg.idx.entries[i].FileMtime }

c25HasEntries == callArg.idx.readable /\ Len(callArg.idx.entries) >= 1

\* the lookup answered from entry i of the index
c25FromEntry(i) ==
    /\ callRet.m.found
    /\ ~callRet.fallback
    /\ callRet.m.fullPath = callArg.idx.entries[i].FullPath
    /\ callRet.m.firstPrompt =
          IF Len(callArg.idx.entries[i].FirstPrompt) <= 200
          THEN callArg.idx.entries[i].FirstPrompt
          ELSE SubSeq(callArg.idx.entries[i].FirstPrompt, 1, 200)

\* the scan answered: with a file that exists and is not older than another
c25FromScan ==
    /\ callRet.fallback
    /\ callRet.m.found
       => /\ callArg.fs[callRet.m.fullPath].exists
          /\ \A n \in DOMAIN callArg.fs :
                callArg.fs[n].exists
                => callArg.fs[n].mtime <= callArg.fs[callRet.m.fullPath].mtime
    /\ ~callRet.m.found => \A n \in DOMAIN callArg.fs : ~callArg.fs[n].exists

(* C25 as claimed: when the index is present, parseable and has an entry,  *)
(* the matched transcript is the fullPath of an entry of greatest          *)
(* fileMtime, with its first prompt truncated to 200, and the directory    *)
(* scan is not used; the scan is used only when no index exists or it is   *)
(* empty, and then selects a file not older than any other.                *)
C25_IndexEntryWhenPresent ==
    callDone =>
      /\ c25HasEntries => \E i \in c25Newest : c25FromEntry(i)
      /\ ~c25HasEntries => c25FromScan

(* C25 amended: with an entry in the index, either the transcript is the   *)
(* non-empty fullPath of an entry of greatest fileMtime (prompt truncated  *)
(* to 200, no scan), or an entry of greatest fileMtime has an empty        *)
(* fullPath and the scan is used; the scan is also used when the index is  *)
(* missing, unparseable or empty; the scan selects a file not older than   *)
(* any other.                                                              *)
C25_IndexEntryUnlessNoPath ==
    callDone =>
      /\ c25HasEntries =>
            \/ \E i \in c25Newest :
                  callArg.idx.entries[i].FullPath # "" /\ c25FromEntry(i)
            \/ /\ \E i \in c25Newest : callArg.idx.entries[i].FullPath = ""
               /\ c25FromScan
      /\ ~c25HasEntries => c25FromScan

\* the index named the older file as its newest entry, with a long prompt:
\* the lookup returned that file and 200 characters of the prompt
C25_Witness ==
    /\ callDone
    /\ c25HasEntries
    /\ ~callRet.fallback
    /\ callRet.m.fullPath = FindNames[1]
    /\ callArg.fs[FindNames[1]].exists /\ callArg.fs[FindNames[2]].exists
    /\ callArg.fs[FindNames[1]].mtime < callArg.fs[FindNames[2]].mtime
    /\ Len(callArg.idx.entries) = 2
    /\ Len(callRet.m.firstPrompt) = maxPromptLength
    /\ \E i \in c25Newest : Len(callArg.idx.entries[i].FirstPrompt) > maxPromptLength

----------------------------------------------------------------------------
(* Spec: the header counts of the list delivered *)

(* tui.go: model.countStates *)
countStates(m) ==
    [activeCount |-> Cardinality({ k \in 1..Len(m.sessions) : m.sessions[k].State = StateActive }),
     waitingCount |-> Cardinality({ k \in 1..Len(m.sessions) : m.sessions[k].State = StateWaiting }),
     idleCount |-> Cardinality({ k \in 1..Len(m.sessions) : m.sessions[k].State = StateIdle })]

\* the rows shown under state filter f with no filter text
c30Shown(f) == filteredSessions([TheModel EXCEPT !.stateFilter = f, !.filterText = <<>>])

c30ShowsCounted(f, state, count) ==
    /\ Len(c30Shown(f)) = count
    /\ \A k \in 1..Len(c30Shown(f)) : c30Shown(f)[k].State = state

(* C30 as claimed: for every list delivered by discovery the counts of     *)
(* countStates add up to the number of sessions, and each state filter     *)
(* other than all shows exactly the sessions counted for its state.        *)
C30_CountsCoverSessions ==
    LET c == countStates(TheModel)
    IN  /\ c.activeCount + c.waitingCount + c.idleCount = Len(sessions)
        /\ c30ShowsCounted(FilterActive, StateActive, c.activeCount)
        /\ c30ShowsCounted(FilterWaiting, StateWaiting, c.waitingCount)
        /\ c30ShowsCounted(FilterIdle, StateIdle, c.idleCount)

----------------------------------------------------------------------------
(* SpecTUI: the cursor *)

c28Valid ==
    Len(filteredSessions(TheModel)) > 0
    => (0 <= cursor /\ cursor < Len(filteredSessions(TheModel)))

(* C28 as claimed: after any key presses, filter changes, sort changes and *)
(* refreshes, a refresh with fewer sessions included, the cursor is a      *)
(* valid index of the displayed list whenever that list is not empty.      *)
C28_CursorInRange == c28Valid

----------------------------------------------------------------------------
(* Spec: the cache against the files of the cycle *)

\* what the enrichment of slot p computes when the cache holds nothing
c26Miss(p) ==
    LET s == passes[p].list[passes[p].i]
    IN  enrichSession(s, s.CWD, passes[p].now, files, index, <<>>)

(* C26 as claimed: the cache is transparent: in every cycle, whatever the  *)
(* changes of the index and the transcripts before it, a session gets the  *)
(* topic, message count and branch a cache miss would compute from the     *)
(* index and transcript as they are in that cycle, and its state is        *)
(* computed on the transcript matched in that cycle.                       *)
C26_CacheTransparent ==
    [][\A p \in Slots :
          c8Enriches(p)
          => \E r \in c26Miss(p) :
                LET enriched == passes'[p].list[passes[p].i]
                IN  /\ enriched.Topic = r.session.Topic
                    /\ enriched.Messages = r.session.Messages
                    /\ enriched.Branch = r.session.Branch
                    /\ enriched.State = r.session.State]_vars

----------------------------------------------------------------------------
(* SpecRefreshOrder: the refresh goroutines and the messages of the loop *)

\* Here passes holds the refreshSessionsCmd goroutines whose message Update
\* has not handled yet, in the order they were started: phase is "running"
\* or "done", list the result of DiscoverAll, sent the place of the message
\* in the program's message channel.  overtaken is history: the result of a
\* goroutine started later has been applied.
NewRefresh == [phase |-> "running", list |-> <<>>, sent |-> 0, overtaken |-> FALSE]

RefreshSent == {k \in 1..Len(passes) : passes[k].phase = "done"}

(* model.Init: tea.Batch(refreshSessionsCmd(), tickCmd()) *)
InitRefreshOrder ==
    /\ sessions = <<>> /\ cursor = 0 /\ mode = ModeNormal
    /\ filterInput = <<>> /\ filterText = <<>>
    /\ stateFilter = FilterAll /\ sortField = SortByState
    /\ windowWidth = 0 /\ windowHeight = 0
    /\ firstRefresh = FALSE /\ quit = FALSE /\ crashed = FALSE
    /\ refreshing = 1 /\ timers = 1
    /\ passes = <<NewRefresh>>
    /\ dsFile = NoFile /\ dsMtime = 0 /\ dsNow = 0 /\ dsState = "none"
    /\ fuEntries = <<>> /\ fuCwdMap = <<>> /\ fuLocks = <<>>
    /\ fuAlive = {} /\ fuResult = <<>> /\ fuDone = FALSE
    /\ clock = 0 /\ files = <<>> /\ index = <<>> /\ metadataCache = <<>>
    /\ appends = 0 /\ indexWrites = 0
    /\ IdleRl /\ IdleCall

\* the fields of the model after Update, and what no refresh step changes
RefreshKeeps(r) ==
    /\ sessions' = r.m.sessions
    /\ firstRefresh' = r.m.firstRefresh
    /\ cursor' = r.m.cursor /\ mode' = r.m.mode
    /\ filterInput' = r.m.filterInput /\ filterText' = r.m.filterText
    /\ stateFilter' = r.m.stateFilter /\ sortField' = r.m.sortField
    /\ windowWidth' = r.m.windowWidth /\ windowHeight' = r.m.windowHeight
    /\ UNCHANGED <<dsVars, fuVars, rlVars, callVars, envVars, metadataCache, quit, crashed>>

(* tui.go: a timer fires and Update, case tickMsg, starts refreshSessionsCmd *)
RefreshTick ==
    /\ timers > 0
    /\ LET r == Update(TheModel, [type |-> "tickMsg"])
       IN  /\ r.cmd = "refresh"
           /\ passes' = Append(passes, NewRefresh)
           /\ timers' = timers - 1
           /\ refreshing' = refreshing + 1
           /\ RefreshKeeps(r)

(* tui.go: refreshSessionsCmd: goroutine k returns from DiscoverAll and *)
(* sends its sessionsRefreshedMsg                                       *)
refreshSessionsCmd(k) ==
    /\ passes[k].phase = "running"
    /\ \E list \in TuiLists :
          passes' = [passes EXCEPT ![k] = [@ EXCEPT !.phase = "done",
                                                    !.list = list,
                                                    !.sent = Cardinality(RefreshSent) + 1]]
    /\ UNCHANGED <<dsVars, fuVars, rlVars, callVars, uiVars, envVars, metadataCache,
                   sessions, firstRefresh, timers, quit, crashed>>

\* the goroutines left when the message of goroutine k has been handled
RefreshLeft(k) ==
    [j \in 1..(Len(passes) - 1) |->
        LET q == IF j < k THEN passes[j] ELSE passes[j + 1]
        IN  [q EXCEPT !.sent = IF q.phase = "done" THEN q.sent - 1 ELSE q.sent,
                      !.overtaken = q.overtaken \/ j < k]]

(* tui.go: Update, case sessionsRefreshedMsg, for the first message sent *)
RefreshApplied(k) ==
    /\ passes[k].phase = "done"
    /\ passes[k].sent = 1
    /\ LET r == Update(TheModel, [type |-> "sessionsRefreshedMsg",
                                  sessions |-> passes[k].list])
       IN  /\ r.cmd = "tick"
           /\ passes' = RefreshLeft(k)
           /\ timers' = timers + 1
           /\ refreshing' = refreshing - 1
           /\ RefreshKeeps(r)

RefreshReturns == \E k \in 1..Len(passes) : refreshSessionsCmd(k)

RefreshDelivers == \E k \in 1..Len(passes) : RefreshApplied(k)

NextRefreshOrder == RefreshTick \/ RefreshReturns \/ RefreshDelivers

SpecRefreshOrder == InitRefreshOrder /\ [][NextRefreshOrder]_vars

\* the goroutine whose message Update handles in this step
c27Applied == passes[CHOOSE k \in RefreshSent : passes[k].sent = 1]

(* C27 as claimed: refresh results are applied in the order their passes    *)
(* started: the result that Update stores as the displayed list never comes *)
(* from a pass started before a pass whose result was already applied.      *)
C27_AppliedInStartOrder ==
    [][Len(passes') < Len(passes) => ~c27Applied.overtaken]_vars

====
